---- MODULE Spec2Model ----
(***************************************************************************)
(* Verification model of the AI-Home-Plus scheduler: the time arithmetic   *)
(* (server/utils/time.js), the record normalizers (server/utils/data.js),  *)
(* the greedy pass of schedule() (server/scheduler.js) and the independent *)
(* validate() (server/validator.js), and the webhook delivery of           *)
(* postSchedule() (server/zapierClient.js). The functions of time.js are   *)
(* also called on their own, on instants the records above do not reach.   *)
(*                                                                         *)
(* Instants are whole minutes since the epoch (a Date object); NoTime is   *)
(* the JavaScript null that toDate() gives for an absent or unparsable     *)
(* value. Raw date and time fields are records [k, v]: k says what kind of *)
(* text the field holds, v the day number, the minute of the day or the    *)
(* instant. A Number of hours (a shift's hours, a running total, a weekly  *)
(* cap) is held in 300ths of an hour, in which both a whole number of      *)
(* minutes and the hundredths of toFixed(2) are integers.                  *)
(***************************************************************************)
EXTENDS Integers, Sequences, FiniteSets, TLC

VARIABLES
    employees,           \* raw employee records passed to schedule()
    availability,        \* raw availability records passed to schedule()
    shiftTemplate,       \* raw shift records the pass has read so far
    existingAssignments, \* raw prior pairings of the shifts read so far
    employeeMap,         \* schedule(): normalizeEmployees(employees)
    availabilityMap,     \* schedule(): normalizeAvailability(availability)
    shifts,              \* schedule(): normalizeShiftRecords(shiftTemplate)
    existing,            \* schedule(): normalizeAssignments(existingAssignments)
    assignments,         \* schedule(): const assignments = []
    issues,              \* schedule(): const issues = []
    totals,              \* schedule(): const totals = new Map()
    blocks,              \* schedule(): const blocks = new Map()
    totalsByEmployee,    \* summarizeTotals() result, set when the pass returns
    validationErrors,    \* validate() result over the returned assignments
    pc,                  \* "loop" while shifts.forEach runs, then "done"
    postedWeeks,         \* zapierClient.js: const postedWeeks = new Set()
    webhookUrl,          \* zapierClient.js: ZAPIER_WEBHOOK_URL ("" when unset)
    calls,               \* postSchedule(): each caller's call and where it stands
    delivered,           \* week ids of the attempts answered with a 2xx response
    timeArgs,            \* time.js called on its own: the arguments of the call
    timeResult,          \* time.js called on its own: what the calls returned
    zapierEnabled,       \* config.js: ZAPIER_ENABLED
    handler,             \* POST /generate-schedule: the request in hand, the responses sent
    planner              \* planSchedule(): where the call stands, what it returned

scheduling == <<employees, availability, shiftTemplate, existingAssignments,
                employeeMap, availabilityMap, shifts, existing, assignments, issues,
                totals, blocks, totalsByEmployee, validationErrors, pc>>

zapier == <<postedWeeks, webhookUrl, calls, delivered>>

timeMath == <<timeArgs, timeResult>>

server == <<zapierEnabled, handler, planner>>

vars == <<scheduling, zapier, timeMath, server>>

\* ------------------------------------------------------------------------
\* Bounds of the exploration.
\* ------------------------------------------------------------------------
\* A template mixes up to MaxShifts records of any kind, or lists up to
\* WeekShifts daily shifts (one per consecutive day, no prior pairing).
MaxShifts == 2
WeekShifts == 4
\* The longest assignment list handed to validate() on its own.
MaxAssignments == 2

\* ------------------------------------------------------------------------
\* server/utils/time.js
\* ------------------------------------------------------------------------
NoTime == -1

MS_IN_HOUR == 60
MS_IN_DAY == 24 * MS_IN_HOUR

\* The Number n of hours, and the units it is held in.
HourUnits == 300
hoursNumber(n) == n * HourUnits

\* A raw field value: absent, unparsable text, a calendar day ("2024-05-01"),
\* a time of day ("07:00", "18:40") or a full timestamp
\* ("2024-05-01T07:00:00.000Z", given by its hour since the epoch).
Absent == [k |-> "absent", v |-> 0]
Garbled == [k |-> "garbled", v |-> 0]
Day(d) == [k |-> "day", v |-> d]
HM(h) == [k |-> "hm", v |-> h * 60]
HMin(h, m) == [k |-> "hm", v |-> h * 60 + m]
ISO(t) == [k |-> "iso", v |-> t * MS_IN_HOUR]

\* toDate on a raw text value: new Date(value), null when invalid.
\* "07:00" alone is no date; a calendar day parses to its midnight.
toDate(value) ==
    CASE value.k = "absent" -> NoTime
      [] value.k = "iso" -> value.v
      [] value.k = "day" -> value.v * MS_IN_DAY
      [] OTHER -> NoTime

\* toDate on a value that is already a Date (or null).
toDateOfDate(d) == IF d = NoTime THEN NoTime ELSE d

combineDateTime(dateValue, timeValue) ==
    IF dateValue.k = "absent" /\ timeValue.k = "absent" THEN NoTime
    ELSE IF timeValue.k = "iso" THEN toDate(timeValue)
    ELSE LET baseDate == toDate(dateValue) IN
         IF baseDate = NoTime THEN toDate(timeValue)
         ELSE IF timeValue.k = "absent" THEN baseDate
         ELSE \* setHours(parseInt(hours) || 0, parseInt(minutes) || 0, 0, 0):
              \* unparsable text gives 0
              LET minuteOfDay == IF timeValue.k = "hm" THEN timeValue.v ELSE 0 IN
              baseDate + (minuteOfDay \div 60) * MS_IN_HOUR
                       + (minuteOfDay % 60) * (MS_IN_HOUR \div 60)

normalizeRange(start, end) ==
    LET startDate == toDateOfDate(start)
        endDate == toDateOfDate(end)
    IN  IF startDate = NoTime \/ endDate = NoTime
        THEN [start |-> NoTime, end |-> NoTime]
        ELSE IF endDate <= startDate
             THEN [start |-> startDate, end |-> endDate + MS_IN_DAY]
             ELSE [start |-> startDate, end |-> endDate]

hoursBetween(start, end) ==
    LET range == normalizeRange(start, end) IN
    IF range.start = NoTime \/ range.end = NoTime THEN 0
    ELSE ((range.end - range.start) * HourUnits) \div MS_IN_HOUR

\* blocks.some(...) of overlaps(): one block against the candidate range.
blockOverlaps(block, candidate) ==
    LET normalized == normalizeRange(block.start, block.end) IN
    IF normalized.start = NoTime \/ normalized.end = NoTime THEN FALSE
    ELSE LET startA == normalized.start
             endA == normalized.end
             startB == candidate.start
             endB == IF candidate.end <= candidate.start
                     THEN candidate.end + MS_IN_DAY ELSE candidate.end
         IN  IF endA <= startA THEN FALSE
             ELSE startA < endB /\ startB < endA

overlaps(blockList, start, end) ==
    IF Len(blockList) = 0 THEN FALSE
    ELSE LET candidate == normalizeRange(start, end) IN
         IF candidate.start = NoTime \/ candidate.end = NoTime THEN FALSE
         ELSE \E i \in 1..Len(blockList) : blockOverlaps(blockList[i], candidate)

\* ------------------------------------------------------------------------
\* server/utils/data.js
\* ------------------------------------------------------------------------
DEFAULT_WEEKLY_CAP == 40

\* Employee ids that occur in the inputs; Ghost is an id no employee has.
Ghost == "ghost"
EmployeeIds == {"e1", "e2", Ghost}

\* What a lookup yields when no alias is present (JavaScript undefined), by
\* the type of the field: text, number, date/time text, employee link.
UndefText == ""
UndefNumber == 0
UndefLink == [isArray |-> FALSE, v |-> <<>>]

\* An employee link is one id or a list of ids.
One(id) == [isArray |-> FALSE, v |-> <<id>>]
Many(ids) == [isArray |-> TRUE, v |-> ids]

RECURSIVE firstOwnKey(_, _, _)
\* Index of the first key of keys (from position i on) that obj owns, else 0.
firstOwnKey(obj, keys, i) ==
    IF i > Len(keys) THEN 0
    ELSE IF keys[i] \in DOMAIN obj THEN i
    ELSE firstOwnKey(obj, keys, i + 1)

readField(record, keys, undefined) ==
    LET top == firstOwnKey(record, keys, 1) IN
    IF top > 0 THEN record[keys[top]]
    ELSE IF "fields" \notin DOMAIN record THEN undefined
    ELSE LET nested == firstOwnKey(record.fields, keys, 1) IN
         IF nested > 0 THEN record.fields[keys[nested]] ELSE undefined

\* String(x).trim().toUpperCase() and .toLowerCase() on the texts that occur
\* as role, status and type values; every other text is already in normal
\* form.
trimUpper(text) ==
    CASE text = " cna " -> "CNA"
      [] text = "cma" -> "CMA"
      [] text = "Either" -> "EITHER"
      [] text = "cna_or_cma" -> "CNA_OR_CMA"
      [] OTHER -> text

trimLower(text) ==
    CASE text = "Active" -> "active"
      [] text = " ACTIVE" -> "active"
      [] text = "Inactive" -> "inactive"
      [] text = "Available" -> "available"
      [] text = "Preferred" -> "preferred"
      [] text = "Unavailable" -> "unavailable"
      [] OTHER -> text

RECURSIVE indexOfId(_, _, _)
\* Position in map (a list of entries with an id) of the entry keyed id, else 0.
indexOfId(map, id, i) ==
    IF i > Len(map) THEN 0
    ELSE IF map[i].id = id THEN i
    ELSE indexOfId(map, id, i + 1)

mapHas(map, id) == indexOfId(map, id, 1) > 0
mapGet(map, id) == map[indexOfId(map, id, 1)]

\* Map.set: a new key is appended in insertion order, a known key keeps its
\* position and takes the new value.
mapSet(map, entry) ==
    LET at == indexOfId(map, entry.id, 1) IN
    IF at = 0 THEN Append(map, entry)
    ELSE [map EXCEPT ![at] = entry]

normalizeEmployee(record) ==
    LET weeklyCapNumber == hoursNumber(
            readField(record, <<"weekly_cap", "weeklyCap", "Weekly Cap">>, UndefNumber))
        roleRaw == readField(record, <<"role">>, UndefText)
        statusRaw == readField(record, <<"status">>, UndefText)
    IN  [id |-> readField(record, <<"id", "employee_id", "employeeId">>, UndefText),
         name |-> readField(record, <<"name", "Name">>, UndefText),
         role |-> trimUpper(roleRaw),
         status |-> trimLower(IF statusRaw = "" THEN "Active" ELSE statusRaw),
         weeklyCap |-> IF weeklyCapNumber > 0 THEN weeklyCapNumber
                       ELSE hoursNumber(DEFAULT_WEEKLY_CAP)]

RECURSIVE normalizeEmployeesFrom(_, _, _)
normalizeEmployeesFrom(records, i, map) ==
    IF i > Len(records) THEN map
    ELSE LET id == readField(records[i], <<"id", "employee_id", "employeeId">>, UndefText) IN
         normalizeEmployeesFrom(records, i + 1,
             IF id = "" THEN map ELSE mapSet(map, normalizeEmployee(records[i])))

\* The employee Map as the list of its values in insertion order.
normalizeEmployees(records) == normalizeEmployeesFrom(records, 1, <<>>)

\* A record's window whatever its type.
normalizeWindow_anyType(record) ==
    LET fields == IF "fields" \in DOMAIN record THEN record.fields ELSE record
        employeeField == readField(fields,
            <<"employee_id", "employee", "Employee", "employees", "Employee ID">>, UndefLink)
        employeeIds == SelectSeq(employeeField.v, LAMBDA id : id # "")
        typeRaw == readField(fields, <<"type", "Type">>, UndefText)
        dateValue == readField(fields, <<"date", "Date">>, Absent)
        startValue == readField(fields, <<"start_time", "start", "Start">>, Absent)
        endValue == readField(fields, <<"end_time", "end", "End">>, Absent)
        range == normalizeRange(combineDateTime(dateValue, startValue),
                                combineDateTime(dateValue, endValue))
    IN  IF Len(employeeIds) = 0 \/ range.start = NoTime \/ range.end = NoTime
        THEN [employeeIds |-> <<>>, start |-> NoTime, end |-> NoTime, preferred |-> FALSE]
        ELSE [employeeIds |-> employeeIds, start |-> range.start, end |-> range.end,
              preferred |-> (trimLower(typeRaw) = "preferred")]

\* The windows one availability record contributes (to each employee it
\* names), or none when it is dropped.
normalizeWindow(record) ==
    LET fields == IF "fields" \in DOMAIN record THEN record.fields ELSE record
        employeeField == readField(fields,
            <<"employee_id", "employee", "Employee", "employees", "Employee ID">>, UndefLink)
        employeeIds == SelectSeq(employeeField.v, LAMBDA id : id # "")
        typeRaw == readField(fields, <<"type", "Type">>, UndefText)
        type == trimLower(IF typeRaw = "" THEN "Available" ELSE typeRaw)
        dateValue == readField(fields, <<"date", "Date">>, Absent)
        startValue == readField(fields, <<"start_time", "start", "Start">>, Absent)
        endValue == readField(fields, <<"end_time", "end", "End">>, Absent)
        range == normalizeRange(combineDateTime(dateValue, startValue),
                                combineDateTime(dateValue, endValue))
    IN  IF Len(employeeIds) = 0 \/ type = "unavailable"
           \/ range.start = NoTime \/ range.end = NoTime
        THEN [employeeIds |-> <<>>, start |-> NoTime, end |-> NoTime, preferred |-> FALSE]
        ELSE [employeeIds |-> employeeIds, start |-> range.start, end |-> range.end,
              preferred |-> (type = "preferred")]

RECURSIVE normalizeAvailabilityFrom(_, _, _)
normalizeAvailabilityFrom(records, employeeId, i) ==
    IF i > Len(records) THEN <<>>
    ELSE LET w == normalizeWindow(records[i])
             mine == SelectSeq(w.employeeIds, LAMBDA id : id = employeeId)
         IN  [k \in 1..Len(mine) |-> [start |-> w.start, end |-> w.end, preferred |-> w.preferred]]
             \o normalizeAvailabilityFrom(records, employeeId, i + 1)

\* The availability Map, read as map.get(employeeId) || []: the windows
\* pushed under employeeId, in record order.
normalizeAvailability(records) ==
    [employeeId \in EmployeeIds |-> normalizeAvailabilityFrom(records, employeeId, 1)]

\* One shift record as normalizeShiftRecords maps it; id 0 (no id) is
\* filtered out by the caller.
normalizeShift(record) ==
    LET fields == IF "fields" \in DOMAIN record THEN record.fields ELSE record
        roleRaw == readField(fields, <<"role_needed", "role", "Role">>, UndefText)
        upper == trimUpper(IF roleRaw = "" THEN "Either" ELSE roleRaw)
        dateValue == readField(fields, <<"date", "Date">>, Absent)
        startValue == readField(fields, <<"start_time", "start", "Start">>, Absent)
        endValue == readField(fields, <<"end_time", "end", "End">>, Absent)
        range == normalizeRange(combineDateTime(dateValue, startValue),
                                combineDateTime(dateValue, endValue))
    IN  [id |-> readField(record, <<"id", "shift_id", "Shift Id", "shiftId">>, UndefNumber),
         roleNeeded |-> IF upper = "EITHER" THEN "" ELSE upper,
         start |-> range.start,
         end |-> range.end,
         hours |-> hoursBetween(range.start, range.end)]

\* A normalizer that keeps the records without an id.
normalizeShiftRecords_keepAll(records) ==
    [i \in 1..Len(records) |-> normalizeShift(records[i])]

normalizeShiftRecords(records) ==
    SelectSeq([i \in 1..Len(records) |-> normalizeShift(records[i])],
              LAMBDA shift : shift.id # 0)

RECURSIVE normalizeAssignmentsFrom(_, _, _)
normalizeAssignmentsFrom(records, i, map) ==
    IF i > Len(records) THEN map
    ELSE LET shiftId == readField(records[i], <<"shift_id", "shiftId", "id">>, UndefNumber)
             employeeId == readField(records[i],
                 <<"employee_id", "employeeId", "assigned_employee">>, UndefText)
         IN  normalizeAssignmentsFrom(records, i + 1,
                 IF shiftId # 0 /\ employeeId # ""
                 THEN mapSet(map, [id |-> shiftId, employeeId |-> employeeId])
                 ELSE map)

\* The list form of existing assignments, as the Map shiftId -> employeeId.
normalizeAssignments(records) == normalizeAssignmentsFrom(records, 1, <<>>)

\* existing.get(shiftId): the employee id, or "" (undefined) when none.
existingGet(existing_, shiftId) ==
    IF mapHas(existing_, shiftId) THEN mapGet(existing_, shiftId).employeeId ELSE ""

\* ------------------------------------------------------------------------
\* server/scheduler.js
\* ------------------------------------------------------------------------
\* employeeId: null of an unfilled assignment, and the absent reason.
NullId == "null"
NoReason == <<>>

norm(s) == trimUpper(s)

\* A role test that lets every role through.
accepts_anyone(empRole, roleNeeded) == TRUE

accepts(empRole, roleNeeded) ==
    LET e == norm(empRole)
        r == norm(roleNeeded)
    IN  IF e = r THEN TRUE
        ELSE IF r = "CNA_OR_CMA" THEN e = "CNA" \/ e = "CMA"
        ELSE FALSE

coverageForShift(windows, shiftStart, shiftEnd) ==
    IF shiftStart = NoTime \/ shiftEnd = NoTime
    THEN [available |-> FALSE, preferred |-> FALSE]
    ELSE LET shiftEndMs == IF shiftEnd <= shiftStart THEN shiftEnd + 24 * MS_IN_HOUR ELSE shiftEnd
             covers(w) == w.start <= shiftStart /\ w.end >= shiftEndMs
         IN  [available |-> \E i \in 1..Len(windows) : covers(windows[i]),
              preferred |-> \E i \in 1..Len(windows) :
                                covers(windows[i]) /\ windows[i].preferred]

\* A trackAssignment that adds the hours but not the block.
trackAssignment_hoursOnly(run, employeeId, shift) ==
    [run EXCEPT !.totals[employeeId] = @ + shift.hours]

\* trackAssignment, on the pair of running Maps.
trackAssignment(run, employeeId, shift) ==
    [run EXCEPT
        !.totals[employeeId] = @ + shift.hours,
        !.blocks[employeeId] = Append(@, [start |-> shift.start, end |-> shift.end,
                                          shiftId |-> shift.id])]

\* String.prototype.localeCompare on employee names: the sign of the
\* collation order, in which the empty name comes first.
nameRank(name) ==
    CASE name = "" -> 0
      [] name = "Ann" -> 1
      [] name = "Bob" -> 2
      [] OTHER -> 3

localeCompare(a, b) == nameRank(a) - nameRank(b)

\* The comparator handed to withoutConflicts.sort.
tieBreak(a, b, run) ==
    IF a.coverage.preferred # b.coverage.preferred
    THEN (IF a.coverage.preferred THEN -1 ELSE 1)
    ELSE LET hoursA == run.totals[a.employee.id]
             hoursB == run.totals[b.employee.id]
             assignsA == Len(run.blocks[a.employee.id])
             assignsB == Len(run.blocks[b.employee.id])
         IN  IF hoursA # hoursB THEN hoursA - hoursB
             ELSE IF assignsA # assignsB THEN assignsA - assignsB
             ELSE localeCompare(a.employee.name, b.employee.name)

RECURSIVE insertSorted(_, _, _, _)
\* Array.prototype.sort is stable: x goes before the first entry it is
\* strictly smaller than, after every entry it ties with.
insertSorted(sorted, x, i, run) ==
    IF i > Len(sorted) THEN Append(sorted, x)
    ELSE IF tieBreak(x, sorted[i], run) < 0
         THEN SubSeq(sorted, 1, i - 1) \o <<x>> \o SubSeq(sorted, i, Len(sorted))
         ELSE insertSorted(sorted, x, i + 1, run)

RECURSIVE sortEntries(_, _, _, _)
sortEntries(entries, i, sorted, run) ==
    IF i > Len(entries) THEN sorted
    ELSE sortEntries(entries, i + 1, insertSorted(sorted, entries[i], 1, run), run)

\* An unfilled entry that is not recorded as an issue.
unfilled_noIssue(run, shift, reason) ==
    [run EXCEPT
        !.assignments = Append(@, [shiftId |-> shift.id, employeeId |-> NullId,
                                   reason |-> reason])]

\* An unfilled shift whose issue does not say why.
unfilled_silentIssue(run, shift, reason) ==
    [run EXCEPT
        !.assignments = Append(@, [shiftId |-> shift.id, employeeId |-> NullId,
                                   reason |-> reason]),
        !.issues = Append(@, [shiftId |-> shift.id, employeeId |-> NullId,
                              reason |-> NoReason])]

\* assignments.push and issues.push of an unfilled shift; the issue has no
\* employeeId property, which reads as NullId.
unfilled(run, shift, reason) ==
    [run EXCEPT
        !.assignments = Append(@, [shiftId |-> shift.id, employeeId |-> NullId,
                                   reason |-> reason]),
        !.issues = Append(@, [shiftId |-> shift.id, employeeId |-> NullId,
                              reason |-> reason])]

filled(run, shift, employeeId) ==
    trackAssignment(
        [run EXCEPT !.assignments = Append(@, [shiftId |-> shift.id,
                                               employeeId |-> employeeId,
                                               reason |-> NoReason])],
        employeeId, shift)

\* The predicate of the withinCap filter (lines 149-152).
withinCapFilter(run, entry, shift) ==
    LET hoursSoFar == run.totals[entry.employee.id] IN
    hoursSoFar + shift.hours <= entry.employee.weeklyCap

\* A withoutConflicts filter that lets every candidate through.
withoutConflictsFilter_noBlocks(run, entry, shift) == TRUE

\* The predicate of the withoutConflicts filter (lines 161-164).
withoutConflictsFilter(run, entry, shift) ==
    LET employeeBlocks == run.blocks[entry.employee.id] IN
    ~overlaps(employeeBlocks, shift.start, shift.end)

\* Lines 124-187 of the loop body: the candidate pool, the three filters,
\* the tie-break and the commit.
freshAssignment(run, shift, needed, employees_, availability_) ==
    LET activeEmployees == SelectSeq(employees_,
            LAMBDA employee : employee.status = "active" /\ accepts(employee.role, needed))
        entries == [i \in 1..Len(activeEmployees) |->
            [employee |-> activeEmployees[i],
             coverage |-> coverageForShift(availability_[activeEmployees[i].id],
                                           shift.start, shift.end)]]
        availabilityCandidates == SelectSeq(entries, LAMBDA entry : entry.coverage.available)
        withinCap == SelectSeq(availabilityCandidates,
            LAMBDA entry : withinCapFilter(run, entry, shift))
        withoutConflicts == SelectSeq(withinCap,
            LAMBDA entry : withoutConflictsFilter(run, entry, shift))
    IN  IF Len(activeEmployees) = 0
        THEN unfilled(run, shift, <<"No employees available for role ",
                                    IF needed = "" THEN "Either" ELSE needed, ".">>)
        ELSE IF Len(availabilityCandidates) = 0
        THEN unfilled(run, shift, <<"No employees are available during the shift window.">>)
        ELSE IF Len(withinCap) = 0
        THEN unfilled(run, shift, <<"All available employees would exceed their weekly cap.">>)
        ELSE IF Len(withoutConflicts) = 0
        THEN unfilled(run, shift, <<"All available employees have conflicting assignments.">>)
        ELSE filled(run, shift,
                    sortEntries(withoutConflicts, 1, <<>>, run)[1].employee.id)

\* An existing-assignment test that ignores the blocks the employee holds.
canAssign_blind(run, shift, needed, existingEmployeeId, employees_, availability_) ==
    /\ mapHas(employees_, existingEmployeeId)
    /\ mapGet(employees_, existingEmployeeId).status = "active"
    /\ run.blocks[existingEmployeeId] = <<>>

\* An existing-assignment test that does not look at the employee's status.
canAssign_anyStatus(run, shift, needed, existingEmployeeId, employees_, availability_) ==
    /\ mapHas(employees_, existingEmployeeId)
    /\ LET employee == mapGet(employees_, existingEmployeeId)
           coverageResult == coverageForShift(availability_[existingEmployeeId],
                                              shift.start, shift.end)
       IN  /\ accepts(employee.role, needed)
           /\ coverageResult.available
           /\ run.totals[existingEmployeeId] + shift.hours <= employee.weeklyCap
           /\ ~overlaps(run.blocks[existingEmployeeId], shift.start, shift.end)

\* The existing-assignment test of lines 97-109.
canAssign(run, shift, needed, existingEmployeeId, employees_, availability_) ==
    /\ mapHas(employees_, existingEmployeeId)
    /\ LET employee == mapGet(employees_, existingEmployeeId)
           coverageResult == coverageForShift(availability_[existingEmployeeId],
                                              shift.start, shift.end)
       IN  /\ employee.status = "active"
           /\ accepts(employee.role, needed)
           /\ coverageResult.available
           /\ run.totals[existingEmployeeId] + shift.hours <= employee.weeklyCap
           /\ ~overlaps(run.blocks[existingEmployeeId], shift.start, shift.end)

\* A loop body that looks at the supplied pairing before the shift's times.
processShift_pairingFirst(run, shift, employees_, availability_, existing_) ==
    LET existingEmployeeId == existingGet(existing_, shift.id)
        reviewed == IF existingEmployeeId = "" THEN run
                    ELSE [run EXCEPT !.issues = Append(@,
                             [shiftId |-> shift.id, employeeId |-> existingEmployeeId,
                              reason |-> <<"Existing assignment violates scheduling rules and was released.">>])]
    IN  IF shift.start = NoTime \/ shift.end = NoTime
        THEN unfilled(reviewed, shift, <<"Shift is missing start or end time.">>)
        ELSE freshAssignment(reviewed, shift, norm(shift.roleNeeded), employees_,
                             availability_)

\* A loop body that keeps the employees that pairings name for other
\* shifts out of the fresh assignment.
processShift_reserving(run, shift, employees_, availability_, existing_) ==
    LET existingEmployeeId == existingGet(existing_, shift.id)
        needed == norm(shift.roleNeeded)
        reserved == {existing_[k].employeeId :
                        k \in {j \in DOMAIN existing_ : existing_[j].id # shift.id}}
        pool == SelectSeq(employees_, LAMBDA employee : employee.id \notin reserved)
    IN  IF shift.start = NoTime \/ shift.end = NoTime
        THEN unfilled(run, shift, <<"Shift is missing start or end time.">>)
        ELSE IF existingEmployeeId = ""
        THEN freshAssignment(run, shift, needed, pool, availability_)
        ELSE IF canAssign(run, shift, needed, existingEmployeeId, employees_,
                          availability_)
        THEN filled(run, shift, existingEmployeeId)
        ELSE freshAssignment(
                 [run EXCEPT !.issues = Append(@,
                     [shiftId |-> shift.id, employeeId |-> existingEmployeeId,
                      reason |-> <<"Existing assignment violates scheduling rules and was released.">>])],
                 shift, needed, pool, availability_)

\* The body of shifts.forEach for one normalized shift.
processShift(run, shift, employees_, availability_, existing_) ==
    LET existingEmployeeId == existingGet(existing_, shift.id)
        needed == norm(shift.roleNeeded)
    IN  IF shift.start = NoTime \/ shift.end = NoTime
        THEN unfilled(run, shift, <<"Shift is missing start or end time.">>)
        ELSE IF existingEmployeeId = ""
        THEN freshAssignment(run, shift, needed, employees_, availability_)
        ELSE IF canAssign(run, shift, needed, existingEmployeeId, employees_,
                          availability_)
        THEN filled(run, shift, existingEmployeeId)
        ELSE freshAssignment(
                 [run EXCEPT !.issues = Append(@,
                     [shiftId |-> shift.id, employeeId |-> existingEmployeeId,
                      reason |-> <<"Existing assignment violates scheduling rules and was released.">>])],
                 shift, needed, employees_, availability_)

\* Number(x.toFixed(2)): x rounded to the nearest hundredth (three units).
toFixed2(x) == ((2 * x + 3) \div 6) * 3

summarizeTotals(employees_, run) ==
    [i \in 1..Len(employees_) |->
        [employeeId |-> employees_[i].id,
         name |-> employees_[i].name,
         role |-> employees_[i].role,
         weeklyCap |-> employees_[i].weeklyCap,
         hours |-> toFixed2(run.totals[employees_[i].id]),
         assignments |-> Len(run.blocks[employees_[i].id])]]

\* Locals that keep the hours and blocks of the pass before.
freshRun_stale ==
    [assignments |-> <<>>, issues |-> <<>>, totals |-> totals, blocks |-> blocks]

\* The locals a call of schedule() starts with (lines 71-74); a Map without
\* a key reads as 0 hours and no blocks.
freshRun ==
    [assignments |-> <<>>, issues |-> <<>>,
     totals |-> [id \in EmployeeIds |-> 0], blocks |-> [id \in EmployeeIds |-> <<>>]]

RECURSIVE scheduleLoop(_, _, _, _, _)
\* shifts.forEach over the first n shifts.
scheduleLoop(shiftList, n, employees_, availability_, existing_) ==
    IF n = 0 THEN freshRun
    ELSE processShift(scheduleLoop(shiftList, n - 1, employees_, availability_, existing_),
                      shiftList[n], employees_, availability_, existing_)

\* schedule() from line 71 on, given what its normalizers have produced.
scheduleNormalized(shiftList, employees_, availability_, existing_) ==
    LET result == scheduleLoop(shiftList, Len(shiftList), employees_, availability_,
                               existing_)
    IN  [assignments |-> result.assignments,
         issues |-> result.issues,
         totalsByEmployee |-> summarizeTotals(employees_, result)]

\* One call of schedule(), from its arguments to its result.
schedule(shiftTemplate_, employees_, availability_, existingAssignments_) ==
    scheduleNormalized(normalizeShiftRecords(shiftTemplate_),
                       normalizeEmployees(employees_),
                       normalizeAvailability(availability_),
                       normalizeAssignments(existingAssignments_))

\* ------------------------------------------------------------------------
\* server/validator.js
\* ------------------------------------------------------------------------
\* An error entry: its type, the shift ids it names (one; two joined for an
\* overlap; none for weekly_cap) and the employee id. The message text is
\* formatted from these and from the employee's name and is left out.
validationError(type, shiftIds, employeeId) ==
    [type |-> type, shiftId |-> shiftIds, employeeId |-> employeeId]

\* record[a] || record[b]: the first of the two properties that is present
\* and truthy; undefined is the falsy value of the property's type.
firstTruthy(record, a, b, undefined) ==
    IF a \in DOMAIN record /\ record[a] # undefined THEN record[a]
    ELSE IF b \in DOMAIN record /\ record[b] # undefined THEN record[b]
    ELSE undefined

RECURSIVE shiftMapFrom(_, _, _)
shiftMapFrom(shifts_, i, map) ==
    IF i > Len(shifts_) THEN map
    ELSE shiftMapFrom(shifts_, i + 1, mapSet(map, shifts_[i]))

\* windows.some(...) of lines 94-106.
hasCoverage(windows, shift) ==
    \E i \in 1..Len(windows) :
        /\ shift.start # NoTime /\ shift.end # NoTime
        /\ LET shiftEnd == IF shift.end <= shift.start THEN shift.end + 24 * MS_IN_HOUR ELSE shift.end
           IN  windows[i].start <= shift.start /\ windows[i].end >= shiftEnd

\* A loop body that goes on to the employee check after a missing shift.
validateAssignment_bothMissing(acc, assignment, shiftMap, employees_, availability_) ==
    LET shiftId == firstTruthy(assignment, "shiftId", "shift_id", 0)
        employeeId == firstTruthy(assignment, "employeeId", "employee_id", NullId)
    IN  IF shiftId = 0 \/ employeeId = NullId THEN acc
        ELSE IF ~mapHas(shiftMap, shiftId)
        THEN [acc EXCEPT !.errors = @
                 \o <<validationError("missing_shift", <<shiftId>>, employeeId)>>
                 \o (IF mapHas(employees_, employeeId) THEN <<>>
                     ELSE <<validationError("missing_employee", <<shiftId>>, employeeId)>>)]
        ELSE IF ~mapHas(employees_, employeeId)
        THEN [acc EXCEPT !.errors = Append(@,
                 validationError("missing_employee", <<shiftId>>, employeeId))]
        ELSE
          LET shift == mapGet(shiftMap, shiftId)
              employee == mapGet(employees_, employeeId)
              e1 == IF employee.status # "active"
                    THEN <<validationError("inactive_employee", <<shiftId>>, employeeId)>>
                    ELSE <<>>
              e2 == IF shift.roleNeeded # "EITHER" /\ employee.role # shift.roleNeeded
                    THEN <<validationError("role_mismatch", <<shiftId>>, employeeId)>>
                    ELSE <<>>
              e3 == IF ~hasCoverage(availability_[employeeId], shift)
                    THEN <<validationError("availability", <<shiftId>>, employeeId)>>
                    ELSE <<>>
              hoursSoFar == IF mapHas(acc.hoursByEmployee, employeeId)
                            THEN mapGet(acc.hoursByEmployee, employeeId).hours ELSE 0
              blocksSoFar == IF mapHas(acc.blocksByEmployee, employeeId)
                             THEN mapGet(acc.blocksByEmployee, employeeId).blocks ELSE <<>>
          IN  [errors |-> acc.errors \o e1 \o e2 \o e3,
               hoursByEmployee |-> mapSet(acc.hoursByEmployee,
                   [id |-> employeeId, hours |-> hoursSoFar + shift.hours]),
               blocksByEmployee |-> mapSet(acc.blocksByEmployee,
                   [id |-> employeeId,
                    blocks |-> Append(blocksSoFar,
                        [start |-> shift.start, end |-> shift.end, shiftId |-> shiftId])])]

\* The body of assignments.forEach (lines 44-128) for one assignment; acc
\* holds errors, hoursByEmployee and blocksByEmployee (Maps in insertion
\* order, as lists of entries keyed id).
validateAssignment(acc, assignment, shiftMap, employees_, availability_) ==
    LET shiftId == firstTruthy(assignment, "shiftId", "shift_id", 0)
        employeeId == firstTruthy(assignment, "employeeId", "employee_id", NullId)
    IN  IF shiftId = 0 \/ employeeId = NullId THEN acc
        ELSE IF ~mapHas(shiftMap, shiftId)
        THEN [acc EXCEPT !.errors = Append(@,
                 validationError("missing_shift", <<shiftId>>, employeeId))]
        ELSE IF ~mapHas(employees_, employeeId)
        THEN [acc EXCEPT !.errors = Append(@,
                 validationError("missing_employee", <<shiftId>>, employeeId))]
        ELSE
          LET shift == mapGet(shiftMap, shiftId)
              employee == mapGet(employees_, employeeId)
              e1 == IF employee.status # "active"
                    THEN <<validationError("inactive_employee", <<shiftId>>, employeeId)>>
                    ELSE <<>>
              e2 == IF shift.roleNeeded # "EITHER" /\ employee.role # shift.roleNeeded
                    THEN <<validationError("role_mismatch", <<shiftId>>, employeeId)>>
                    ELSE <<>>
              e3 == IF ~hasCoverage(availability_[employeeId], shift)
                    THEN <<validationError("availability", <<shiftId>>, employeeId)>>
                    ELSE <<>>
              hoursSoFar == IF mapHas(acc.hoursByEmployee, employeeId)
                            THEN mapGet(acc.hoursByEmployee, employeeId).hours ELSE 0
              blocksSoFar == IF mapHas(acc.blocksByEmployee, employeeId)
                             THEN mapGet(acc.blocksByEmployee, employeeId).blocks ELSE <<>>
          IN  [errors |-> acc.errors \o e1 \o e2 \o e3,
               hoursByEmployee |-> mapSet(acc.hoursByEmployee,
                   [id |-> employeeId, hours |-> hoursSoFar + shift.hours]),
               blocksByEmployee |-> mapSet(acc.blocksByEmployee,
                   [id |-> employeeId,
                    blocks |-> Append(blocksSoFar,
                        [start |-> shift.start, end |-> shift.end, shiftId |-> shiftId])])]

RECURSIVE validateAssignmentsFrom(_, _, _, _, _, _)
validateAssignmentsFrom(acc, list, i, shiftMap, employees_, availability_) ==
    IF i > Len(list) THEN acc
    ELSE validateAssignmentsFrom(
             validateAssignment(acc, list[i], shiftMap, employees_, availability_),
             list, i + 1, shiftMap, employees_, availability_)

RECURSIVE weeklyCapErrors_atCap(_, _, _)
\* A cap check that already objects to hours equal to the cap.
weeklyCapErrors_atCap(hoursByEmployee, employees_, i) ==
    IF i > Len(hoursByEmployee) THEN <<>>
    ELSE LET employeeId == hoursByEmployee[i].id
             hours == hoursByEmployee[i].hours
         IN  (IF mapHas(employees_, employeeId)
                 /\ hours >= mapGet(employees_, employeeId).weeklyCap
              THEN <<validationError("weekly_cap", <<>>, employeeId)>>
              ELSE <<>>)
             \o weeklyCapErrors_atCap(hoursByEmployee, employees_, i + 1)

RECURSIVE weeklyCapErrors(_, _, _)
\* Lines 130-139.
weeklyCapErrors(hoursByEmployee, employees_, i) ==
    IF i > Len(hoursByEmployee) THEN <<>>
    ELSE LET employeeId == hoursByEmployee[i].id
             hours == hoursByEmployee[i].hours
         IN  (IF mapHas(employees_, employeeId)
                 /\ hours > mapGet(employees_, employeeId).weeklyCap
              THEN <<validationError("weekly_cap", <<>>, employeeId)>>
              ELSE <<>>)
             \o weeklyCapErrors(hoursByEmployee, employees_, i + 1)

RECURSIVE overlapPairs(_, _, _, _)
\* The i, j loops of lines 143-154 over one employee's blocks.
overlapPairs(employeeId, blockList, i, j) ==
    IF i > Len(blockList) THEN <<>>
    ELSE IF j > Len(blockList) THEN overlapPairs(employeeId, blockList, i + 1, i + 2)
    ELSE (IF overlaps(<<blockList[i]>>, blockList[j].start, blockList[j].end)
          THEN <<validationError("overlap",
                     <<blockList[i].shiftId, blockList[j].shiftId>>, employeeId)>>
          ELSE <<>>)
         \o overlapPairs(employeeId, blockList, i, j + 1)

RECURSIVE overlapErrors(_, _)
\* Lines 141-155.
overlapErrors(blocksByEmployee, i) ==
    IF i > Len(blocksByEmployee) THEN <<>>
    ELSE overlapPairs(blocksByEmployee[i].id, blocksByEmployee[i].blocks, 1, 2)
         \o overlapErrors(blocksByEmployee, i + 1)

\* validate() from line 35 on, given the Map of employees, the Map of
\* windows and the list of shifts its normalizers have produced.
validateNormalized(assignmentList, shiftList, employees_, availability_) ==
    LET shiftMap == shiftMapFrom(shiftList, 1, <<>>)
        acc == validateAssignmentsFrom(
                   [errors |-> <<>>, hoursByEmployee |-> <<>>, blocksByEmployee |-> <<>>],
                   assignmentList, 1, shiftMap, employees_, availability_)
    IN  acc.errors
        \o weeklyCapErrors(acc.hoursByEmployee, employees_, 1)
        \o overlapErrors(acc.blocksByEmployee, 1)

validate(assignmentList, shiftRecords, employeeRecords, availabilityRecords) ==
    validateNormalized(assignmentList, normalizeShiftRecords(shiftRecords),
                       normalizeEmployees(employeeRecords),
                       normalizeAvailability(availabilityRecords))

\* ------------------------------------------------------------------------
\* Inputs of the exploration.
\* ------------------------------------------------------------------------
\* The request of the test suite: employee e1, a CNA with cap 40.
AnnCNA == [id |-> "e1", name |-> "Ann", role |-> "CNA", status |-> "Active", weekly_cap |-> 40]
AnnCNA2 == [id |-> "e2", name |-> "Ann", role |-> "CNA", status |-> "Active", weekly_cap |-> 40]
BobCMA2 == [id |-> "e2", name |-> "Bob", role |-> "CMA", status |-> " ACTIVE", weekly_cap |-> 0]
AllWeek == << [id |-> "a1", employee_id |-> Many(<<"e1", "e2">>),
               start_time |-> ISO(0), end_time |-> ISO(240)] >>

\* Both employees are available until 06:00 on day 3, an hour before the
\* shifts of that morning start.
UntilSix == << [id |-> "a1", employee_id |-> Many(<<"e1", "e2">>),
                start_time |-> ISO(0), end_time |-> ISO(3 * 24 + 6)] >>
\* A colleague who is neither active nor of the role the CNA shifts need.
InactiveCMA == [id |-> "e2", name |-> "Bob", role |-> "CMA", status |-> "Inactive",
                weekly_cap |-> 40]
\* Both employees are available on days 0, 1 and 2 only.
ThreeDays == << [id |-> "a1", employee_id |-> Many(<<"e1", "e2">>),
                 start_time |-> ISO(0), end_time |-> ISO(3 * 24)] >>

\* The first employee record of the request.
FirstEmployees ==
    { [id |-> "e1", name |-> "Ann", role |-> "CNA", status |-> "Active", weekly_cap |-> 40],
      [employee_id |-> "e1", name |-> "Bob", role |-> " cna "],
      [id |-> "e1", name |-> "Ann", role |-> "cma", status |-> "Active", weekly_cap |-> 12] }

\* The second employee record, when there is one.
SecondEmployees ==
    { [id |-> "e2", name |-> "Ann", role |-> "CNA", status |-> "Active", weekly_cap |-> 40],
      [id |-> "e2", name |-> "Bob", role |-> "CMA", status |-> " ACTIVE", weekly_cap |-> 0],
      [id |-> "e2", name |-> "Bob", role |-> "CNA", status |-> "Inactive", weekly_cap |-> 40] }

\* An employee record without any id alias.
IdlessEmployee == [name |-> "Cat", role |-> "CNA", status |-> "Active"]

\* The requests with two employees: the fully described CNA with an active
\* colleague of either role, the sparsely described one with a CNA
\* colleague, active or not.
Teams ==
    { team \in FirstEmployees \X SecondEmployees :
          \/ team[1].role = "CNA" /\ team[2].status # "Inactive"
          \/ team[1].role = " cna " /\ team[2].role = "CNA" }

EmployeeLists ==
    { <<first>> : first \in FirstEmployees }
    \cup Teams
    \cup { <<IdlessEmployee,
             [id |-> "e2", name |-> "Bob", role |-> "CNA", status |-> "Active", weekly_cap |-> 40]>> }

\* Availability lists; "all week" is from hour 0 to hour 240.
AvailabilityLists ==
    { \* one record naming both employees, available all week
      << [id |-> "a1", employee_id |-> Many(<<"e1", "e2">>),
          start_time |-> ISO(0), end_time |-> ISO(240)] >>,
      \* field-bag records; the second employee prefers the whole week
      << [id |-> "a1", fields |-> [Employee |-> Many(<<"e1">>), Type |-> "Available",
                                   Start |-> ISO(0), End |-> ISO(240)]],
         [id |-> "a2", employee_id |-> One("e2"), type |-> "Preferred",
          start_time |-> ISO(0), end_time |-> ISO(240)] >>,
      \* the first employee has day 1 from 07:00 to 19:00 and is otherwise
      \* unavailable; the second has the two halves of that day, the night
      \* after it and a record whose start no Date parses
      << [id |-> "a1", employee_id |-> One("e1"), date |-> Day(1),
          start_time |-> HM(7), end_time |-> HM(19), type |-> "Available"],
         [id |-> "a2", employee_id |-> One("e1"), type |-> "Unavailable",
          start_time |-> ISO(0), end_time |-> ISO(240)],
         [id |-> "a3", employee_id |-> One("e2"), date |-> Day(1),
          start_time |-> HM(7), end_time |-> HM(13)],
         [id |-> "a4", employee_id |-> One("e2"), date |-> Day(1),
          start_time |-> HM(13), end_time |-> HM(19)],
         [id |-> "a5", employee_id |-> One("e2"), date |-> Day(1),
          start_time |-> HM(19), end_time |-> HM(7), type |-> "Preferred"],
         [id |-> "a6", employee_id |-> One("e2"),
          start_time |-> Garbled, end_time |-> ISO(240)] >> }

\* The kinds of shift record a template is made of; pos is the record's
\* position in the template and, where the record has an id, its id.
WeekKinds == {"day", "morning", "overnight"}
MixedKinds == {"afternoon", "either", "night", "composite", "cma", "noid", "notime"}

ShiftRecord(kind, pos) ==
    CASE kind = "day" ->       \* the test suite's dayShift, on day pos
            [id |-> pos, role_needed |-> "CNA", date |-> Day(pos),
             start_time |-> ISO(pos * 24 + 7), end_time |-> ISO(pos * 24 + 19)]
      [] kind = "morning" ->   \* six hours on day pos
            [shift_id |-> pos, role_needed |-> "CNA", date |-> Day(pos),
             start_time |-> HM(7), end_time |-> HM(13)]
      [] kind = "overnight" -> \* 19:00 on day pos to 09:00 the next morning
            [id |-> pos, role_needed |-> "CNA", date |-> Day(pos),
             start_time |-> HM(19), end_time |-> HM(9)]
      [] kind = "afternoon" -> \* 13:00 to 18:40, inside the day shift of day 1
            [id |-> pos, fields |-> [Role |-> " cna ", Date |-> Day(1),
                                     Start |-> HM(13), End |-> HMin(18, 40)]]
      [] kind = "either" ->    \* any role, the hours of the day shift of day 1
            [id |-> pos, role_needed |-> "Either", date |-> Day(1),
             start_time |-> HM(7), end_time |-> HM(19)]
      [] kind = "night" ->     \* no role given, 19:00 to 07:00 after day 1
            [id |-> pos, date |-> Day(1), start_time |-> HM(19), end_time |-> HM(7)]
      [] kind = "composite" -> \* either of the two roles, day 2
            [id |-> pos, role_needed |-> "cna_or_cma", date |-> Day(2),
             start_time |-> HM(7), end_time |-> HM(19)]
      [] kind = "cma" ->       \* the CMA shift of the test suite, day 1
            [id |-> pos, role_needed |-> "cma", date |-> Day(1),
             start_time |-> ISO(24 + 8), end_time |-> ISO(24 + 20)]
      [] kind = "noid" ->      \* a record without any id alias
            [role_needed |-> "CNA", date |-> Day(1),
             start_time |-> HM(7), end_time |-> HM(19)]
      [] kind = "notime" ->    \* no date, a start no Date parses, no end
            [id |-> pos, role_needed |-> "CNA", start_time |-> Garbled]
      [] kind = "backdated" -> \* full timestamps, the end 50 hours before the start
            [id |-> pos, role_needed |-> "CNA",
             start_time |-> ISO(3 * 24 + 7), end_time |-> ISO(24 + 5)]
      [] kind = "twodays" ->   \* full timestamps, the end 48 hours before the start
            [id |-> pos, role_needed |-> "CNA",
             start_time |-> ISO(3 * 24 + 7), end_time |-> ISO(24 + 7)]

\* What the caller supplies with one more shift: the kind of record and the
\* employee a prior pairing names for it ("" for none).
StepInputs ==
    { <<kind, "">> : kind \in (WeekKinds \cup MixedKinds) \ {"notime"} }
    \cup { <<"afternoon", e>> : e \in EmployeeIds }
    \cup { <<"either", "e1">>, <<"notime", "e1">>, <<"morning", "e1">> }

\* A template read so far that is a run of daily shifts without pairings.
IsWeekRun ==
    /\ existingAssignments = <<>>
    /\ \A j \in 1..Len(shiftTemplate) :
           \E kind \in WeekKinds : shiftTemplate[j] = ShiftRecord(kind, j)

MayExtend(kind, existingEmployeeId) ==
    \/ Len(shiftTemplate) < MaxShifts
    \/ /\ Len(shiftTemplate) < WeekShifts
       /\ IsWeekRun
       /\ kind \in WeekKinds
       /\ existingEmployeeId = ""

\* ------------------------------------------------------------------------
\* server/zapierClient.js
\* ------------------------------------------------------------------------
\* const attempts = 3 (line 30).
attempts == 3

\* The callers whose postSchedule() calls may be in flight at once, and the
\* week ids of their payloads.
Callers == {"a", "b"}
WeekIds == {"week-500", "week-dup"}

\* What an attempt can be answered with: a response status, or Thrown when
\* fetch() or response.text() rejects (the 5 s abort included).
Thrown == -1
Statuses == {200, 404, 500}

\* response.ok of the Fetch standard.
responseOk(status) == status >= 200 /\ status < 300

\* A duplicate check that does not look at force.
skipsDuplicate_ignoringForce(force, week_id) == week_id \in postedWeeks

\* !force && postedWeeks.has(parsed.week_id) (line 22).
skipsDuplicate(force, week_id) == ~force /\ week_id \in postedWeeks

\* A loop that returns only the responses that are ok.
returnsResponse_okOnly(status) == responseOk(status)

\* A loop that hands back whatever response it gets.
returnsResponse_always(status) == TRUE

\* response.ok || response.status < 500 (line 47).
returnsResponse(status) == responseOk(status) \/ status < 500

\* A delivery that records the week of every response it returns.
recordsWeek_anyResponse(status) == TRUE

\* response.ok && response.status >= 200 && response.status < 300 (line 48).
recordsWeek(status) == responseOk(status) /\ status >= 200 /\ status < 300

\* A caller that has no call in flight and has made none.
Idle == [at |-> "idle", week_id |-> "", force |-> FALSE, attempt |-> 0,
         status |-> 0, fetches |-> 0, answers |-> <<>>, result |-> [ok |-> FALSE, status |-> 0]]

returned(call, ok, status) ==
    [call EXCEPT !.at = "returned", !.result = [ok |-> ok, status |-> status]]

\* A loop that waits after every failed attempt, the last one too.
nextAttempt_alwaysDelay(call, answer) ==
    [call EXCEPT !.answers = Append(@, answer), !.at = "delay"]

\* The catch block (lines 63-74) and the end of a 5xx iteration (lines
\* 54-62, 77): wait and go round again, or return after the last attempt.
nextAttempt(call, answer) ==
    LET noted == [call EXCEPT !.answers = Append(@, answer)] IN
    IF call.attempt < attempts - 1 THEN [noted EXCEPT !.at = "delay"]
    ELSE IF answer = Thrown THEN returned(noted, FALSE, 0)
    ELSE returned(noted, FALSE, 500)

NoDelivery ==
    /\ postedWeeks = {}
    /\ webhookUrl = ""
    /\ calls = [c \in Callers |-> Idle]
    /\ delivered = {}

\* ------------------------------------------------------------------------
\* server/index.js: the request schema and POST /generate-schedule, read
\* with the zod shim of server/zod.js that the repository runs on.
\* ------------------------------------------------------------------------
\* A JSON number where the schema expects the text of an id.
NumericId == "number 5"

\* typeof value === "string"
isString(value) == value # NumericId

\* An employee record whose id is a number, and a request list holding it.
NumberedEmployee ==
    [id |-> NumericId, name |-> "Dan", role |-> "CNA", status |-> "Active", weekly_cap |-> 40]

\* The check that employeeRecordSchema hands to refine() (lines 27-37), on
\* the record the object schema has built: v.id.trim() is called on any
\* truthy v.id, and throws a TypeError when that is not a string. The ids
\* of the requests carry no blanks, so trim() returns them as they are.
employeeRefine(v) ==
    LET named(record, key) ==
            key \in DOMAIN record /\ isString(record[key]) /\ record[key] # ""
    IN  IF "id" \in DOMAIN v /\ v.id # "" /\ ~isString(v.id) THEN "TypeError"
        ELSE IF \E key \in {"id", "employee_id", "employeeId"} : named(v, key) THEN "pass"
        ELSE IF "fields" \in DOMAIN v
                /\ \E key \in {"employee_id", "employeeId", "id"} : named(v.fields, key)
        THEN "pass"
        ELSE "fail"

\* z.string().min(1) (zod.js:60-80): an issue for a value that is no string
\* or is empty; undefined is UndefText.
stringMin1(value) == isString(value) /\ value # ""

\* scheduleRequestSchema.parse(payload) (line 126; zod.js:12-20, 150-170):
\* the object schema parses every field, pushing issues, and runs the
\* refine checks on what it has built; parse() throws a ZodError when
\* issues were pushed, unless a check has thrown before it gets there. The
\* dates and the shift, availability and pairing records of the requests
\* are ones their schemas accept.
parseRequest(body) ==
    LET each == DOMAIN body.employees
        idIssue(v) == "id" \in DOMAIN v /\ ~stringMin1(v.id)
    IN  IF \E n \in each : employeeRefine(body.employees[n]) = "TypeError"
        THEN "TypeError"
        ELSE IF \/ ~stringMin1(body.week_id)
                \/ \E n \in each : idIssue(body.employees[n])
                \/ \E n \in each : employeeRefine(body.employees[n]) = "fail"
        THEN "ZodError"
        ELSE "parsed"

\* validationErrors.map(...) of lines 141-146: the entry of combinedIssues
\* made of a validator finding (its reason is the finding's message).
asIssue(e) == [shiftId |-> e.shiftId, employeeId |-> e.employeeId, type |-> e.type]

\* responseZapier (lines 170-176) of what postSchedule() returned or of what
\* the catch block made of its rejection; the text is left out.
responseZapier(zapierResult) == [ok |-> zapierResult.ok, status |-> zapierResult.status]

\* No request is in hand and none has been answered.
NoHandler == [at |-> "idle", week_id |-> "", force |-> FALSE, responses |-> <<>>]

\* planSchedule() has not been called; USE_AI_FLAG and OPENAI_API_KEY are
\* unset. thrown names the step of the AI planner that threw, if one did.
NoPlan ==
    [at |-> "idle", USE_AI_FLAG |-> FALSE, OPENAI_API_KEY |-> FALSE, thrown |-> "",
     localResult |-> <<>>, result |-> <<>>]

\* The server has handled no request and planned nothing; ZAPIER_ENABLED
\* is "true" unless the environment says otherwise.
NoRequest ==
    /\ zapierEnabled = TRUE
    /\ handler = NoHandler
    /\ planner = NoPlan

\* What the calls of time.js on its own have returned: nothing yet.
NoResult == [overlaps |-> FALSE, asCandidate |-> <<>>, asBlock |-> <<>>,
             coverage |-> <<>>, hasCoverage |-> <<>>]

\* No call of time.js on its own is under way.
NoCall ==
    /\ timeArgs = [start |-> NoTime, end |-> NoTime, blocks |-> <<>>]
    /\ timeResult = NoResult

\* ------------------------------------------------------------------------
\* The state machine: one greedy pass, then the validator over its result.
\* ------------------------------------------------------------------------
run == [assignments |-> assignments, issues |-> issues,
        totals |-> totals, blocks |-> blocks]

Init ==
    /\ employees \in EmployeeLists
    /\ availability \in AvailabilityLists
    /\ shiftTemplate = <<>>
    /\ existingAssignments = <<>>
    /\ employeeMap = normalizeEmployees(employees)
    /\ availabilityMap = normalizeAvailability(availability)
    /\ shifts = <<>>
    /\ existing = <<>>
    /\ assignments = <<>>
    /\ issues = <<>>
    /\ totals = [id \in EmployeeIds |-> 0]
    /\ blocks = [id \in EmployeeIds |-> <<>>]
    /\ totalsByEmployee = <<>>
    /\ validationErrors = <<>>
    /\ pc = "loop"
    /\ NoDelivery
    /\ NoCall
    /\ NoRequest

\* One iteration of shifts.forEach: the next record of the template (and the
\* prior pairing supplied for it) is read, normalized and processed.
\* normalizeShiftRecords maps and filters record by record, so the
\* normalized list grows by what it makes of the new record; a record
\* without an id is dropped by it and changes nothing.
ProcessShift(kind, existingEmployeeId) ==
    /\ pc = "loop"
    /\ MayExtend(kind, existingEmployeeId)
    /\ LET pos == Len(shiftTemplate) + 1
           record == ShiftRecord(kind, pos)
           pairings == IF existingEmployeeId = "" THEN existingAssignments
                       ELSE Append(existingAssignments,
                                [shift_id |-> pos, employee_id |-> existingEmployeeId])
           shiftList == shifts \o normalizeShiftRecords(<<record>>)
           pairingMap == normalizeAssignments(pairings)
           next == IF Len(shiftList) = Len(shifts) THEN run
                   ELSE processShift(run, shiftList[Len(shiftList)], employeeMap,
                                     availabilityMap, pairingMap)
       IN  /\ shiftTemplate' = Append(shiftTemplate, record)
           /\ existingAssignments' = pairings
           /\ shifts' = shiftList
           /\ existing' = pairingMap
           /\ assignments' = next.assignments
           /\ issues' = next.issues
           /\ totals' = next.totals
           /\ blocks' = next.blocks
    /\ UNCHANGED <<employees, availability, employeeMap, availabilityMap,
                   totalsByEmployee, validationErrors, pc, zapier, timeMath, server>>

\* schedule() returns its result and POST /generate-schedule hands the
\* assignments to validate() with the same request lists. validate()
\* normalizes the three lists again; the normalizers are functions of the
\* lists alone, so its Maps and shifts are those the pass holds.
ReturnAndValidate ==
    /\ pc = "loop"
    /\ totalsByEmployee' = summarizeTotals(employeeMap, run)
    /\ validationErrors' = validateNormalized(assignments, shifts, employeeMap,
                                              availabilityMap)
    /\ pc' = "done"
    /\ UNCHANGED <<employees, availability, shiftTemplate, existingAssignments,
                   employeeMap, availabilityMap, shifts, existing,
                   assignments, issues, totals, blocks, zapier, timeMath, server>>

Next ==
    \/ \E input \in StepInputs : ProcessShift(input[1], input[2])
    \/ ReturnAndValidate

Spec == Init /\ [][Next]_vars

\* The same pass over templates that hold shift records whose end
\* timestamp lies two days or more before the start timestamp.
BackdatedInputs ==
    { <<"day", "">>, <<"backdated", "">>, <<"backdated", "e1">>, <<"twodays", "">> }

NextBackdated ==
    \/ \E input \in BackdatedInputs : ProcessShift(input[1], input[2])
    \/ ReturnAndValidate

SpecBackdated == Init /\ [][NextBackdated]_vars

\* ------------------------------------------------------------------------
\* validate() on its own: an assignment list supplied by the caller.
\* ------------------------------------------------------------------------
\* Entries of a supplied list: pairings of the two shifts of the template or
\* of an unknown shift 9 with the employees or the unknown Ghost, and the
\* unfilled entry schedule() writes.
AssignmentEntries ==
    { [shiftId |-> shiftId, employeeId |-> employeeId] :
          shiftId \in {1, 2}, employeeId \in EmployeeIds }
    \cup { [shift_id |-> 9, employee_id |-> "e1"],
           [shiftId |-> 1, employeeId |-> NullId,
            reason |-> <<"No employees are available during the shift window.">>] }

RECURSIVE ListsUpTo(_, _)
\* The lists of at most n elements of set.
ListsUpTo(set, n) ==
    IF n = 0 THEN {<<>>}
    ELSE LET shorter == ListsUpTo(set, n - 1) IN
         shorter \cup {Append(list, x) : list \in shorter, x \in set}

ValidateTemplates ==
    { <<ShiftRecord(first, 1), ShiftRecord(second, 2)>> :
          first \in {"day", "either"}, second \in {"afternoon", "composite", "notime"} }

InitValidate ==
    /\ employees \in EmployeeLists
    /\ availability \in AvailabilityLists
    /\ shiftTemplate \in ValidateTemplates
    /\ assignments \in ListsUpTo(AssignmentEntries, MaxAssignments)
    /\ existingAssignments = <<>>
    /\ employeeMap = normalizeEmployees(employees)
    /\ availabilityMap = normalizeAvailability(availability)
    /\ shifts = normalizeShiftRecords(shiftTemplate)
    /\ existing = <<>>
    /\ issues = <<>>
    /\ totals = [id \in EmployeeIds |-> 0]
    /\ blocks = [id \in EmployeeIds |-> <<>>]
    /\ totalsByEmployee = <<>>
    /\ validationErrors = <<>>
    /\ pc = "validate"
    /\ NoDelivery
    /\ NoCall
    /\ NoRequest

\* A validator that hands the assignment list back in reverse order.
Validate_reordering ==
    /\ pc = "validate"
    /\ validationErrors' = validate(assignments, shiftTemplate, employees, availability)
    /\ assignments' = [i \in 1..Len(assignments) |-> assignments[Len(assignments) + 1 - i]]
    /\ pc' = "validated"
    /\ UNCHANGED <<employees, availability, shiftTemplate, existingAssignments,
                   employeeMap, availabilityMap, shifts, existing,
                   issues, totals, blocks, totalsByEmployee, zapier, timeMath, server>>

\* validate(assignments, shifts, employees, availability) is called.
Validate ==
    /\ pc = "validate"
    /\ validationErrors' = validate(assignments, shiftTemplate, employees, availability)
    /\ pc' = "validated"
    /\ UNCHANGED <<employees, availability, shiftTemplate, existingAssignments,
                   employeeMap, availabilityMap, shifts, existing,
                   assignments, issues, totals, blocks, totalsByEmployee, zapier, timeMath, server>>

NextValidate == Validate

SpecValidate == InitValidate /\ [][NextValidate]_vars

\* validate() on lists over three shifts of which a day shift on day 3
\* follows one that starts on that morning and is written with an end
\* timestamp two days or more, or a few hours, before its start.
BackdatedTemplates ==
    { <<ShiftRecord("day", 1), ShiftRecord(second, 2), ShiftRecord("day", 3)>> :
          second \in {"backdated", "twodays", "overnight"} }

BackdatedEntries ==
    { [shiftId |-> shiftId, employeeId |-> employeeId] :
          shiftId \in {1, 2, 3}, employeeId \in {"e1", "e2"} }

InitValidateBackdated ==
    /\ employees \in {<<AnnCNA>>, <<AnnCNA, AnnCNA2>>, <<AnnCNA, InactiveCMA>>}
    /\ availability \in {AllWeek, ThreeDays, UntilSix}
    /\ shiftTemplate \in BackdatedTemplates
    /\ assignments \in ListsUpTo(BackdatedEntries, MaxAssignments)
    /\ existingAssignments = <<>>
    /\ employeeMap = normalizeEmployees(employees)
    /\ availabilityMap = normalizeAvailability(availability)
    /\ shifts = normalizeShiftRecords(shiftTemplate)
    /\ existing = <<>>
    /\ issues = <<>>
    /\ totals = [id \in EmployeeIds |-> 0]
    /\ blocks = [id \in EmployeeIds |-> <<>>]
    /\ totalsByEmployee = <<>>
    /\ validationErrors = <<>>
    /\ pc = "validate"
    /\ NoDelivery
    /\ NoCall
    /\ NoRequest

SpecValidateBackdated == InitValidateBackdated /\ [][NextValidate]_vars

\* ------------------------------------------------------------------------
\* postSchedule(): calls of several callers, interleaved at their awaits.
\* ------------------------------------------------------------------------
InitPost ==
    /\ employees = <<>>
    /\ availability = <<>>
    /\ shiftTemplate = <<>>
    /\ existingAssignments = <<>>
    /\ employeeMap = <<>>
    /\ availabilityMap = normalizeAvailability(<<>>)
    /\ shifts = <<>>
    /\ existing = <<>>
    /\ assignments = <<>>
    /\ issues = <<>>
    /\ totals = [id \in EmployeeIds |-> 0]
    /\ blocks = [id \in EmployeeIds |-> <<>>]
    /\ totalsByEmployee = <<>>
    /\ validationErrors = <<>>
    /\ pc = "post"
    /\ postedWeeks = {}
    /\ webhookUrl \in {"", "https://hooks.example.com/test"}
    /\ calls = [c \in Callers |-> Idle]
    /\ delivered = {}
    /\ NoCall
    /\ NoRequest

\* Where a call of postSchedule(payload, {force}) stands at its first await
\* or at its return before one (lines 18-37).
postScheduleEntry(week_id, force) ==
    LET call == [Idle EXCEPT !.week_id = week_id, !.force = force] IN
    IF skipsDuplicate(force, week_id) THEN returned(call, TRUE, 204)
    ELSE IF webhookUrl = "" THEN returned(call, FALSE, 0)
    ELSE [call EXCEPT !.at = "fetch", !.fetches = 1]

\* postSchedule(payload, {force}) up to its first await (lines 18-37): the
\* duplicate check, the check of the webhook URL, and the first fetch().
PostSchedule(c, week_id, force) ==
    /\ calls[c].at \in {"idle", "returned"}
    /\ calls' = [calls EXCEPT ![c] = postScheduleEntry(week_id, force)]
    /\ UNCHANGED <<scheduling, timeMath, server, postedWeeks, webhookUrl, delivered>>

\* await fetch(...) settles (lines 37-45): a response, or a rejection that
\* the catch block takes.
FetchSettles(c, answer) ==
    /\ calls[c].at = "fetch"
    /\ calls' = [calls EXCEPT ![c] =
           IF answer = Thrown THEN nextAttempt(@, Thrown)
           ELSE [@ EXCEPT !.at = "text", !.status = answer]]
    /\ UNCHANGED <<scheduling, timeMath, server, postedWeeks, webhookUrl, delivered>>

\* await response.text() settles (lines 46-62): the response is returned,
\* and its week recorded when it is a 2xx, or the attempt has failed.
TextSettles(c, read) ==
    /\ calls[c].at = "text"
    /\ LET call == calls[c]
           status == call.status
       IN  IF ~read
           THEN /\ calls' = [calls EXCEPT ![c] = nextAttempt(call, Thrown)]
                /\ UNCHANGED <<postedWeeks, delivered>>
           ELSE /\ delivered' = IF status >= 200 /\ status < 300
                                THEN delivered \cup {call.week_id} ELSE delivered
                /\ IF returnsResponse(status)
                   THEN /\ postedWeeks' =
                               IF recordsWeek(status)
                               THEN postedWeeks \cup {call.week_id} ELSE postedWeeks
                        /\ calls' = [calls EXCEPT ![c] =
                               returned([call EXCEPT !.answers = Append(@, status)],
                                        responseOk(status), status)]
                   ELSE /\ calls' = [calls EXCEPT ![c] = nextAttempt(call, status)]
                        /\ UNCHANGED postedWeeks
    /\ UNCHANGED <<scheduling, timeMath, server, webhookUrl>>

\* await delay(250 * 2 ** attempt) is over: the next iteration calls fetch().
DelayEnds(c) ==
    /\ calls[c].at = "delay"
    /\ calls' = [calls EXCEPT ![c] =
           [@ EXCEPT !.at = "fetch", !.attempt = @ + 1, !.fetches = @ + 1]]
    /\ UNCHANGED <<scheduling, timeMath, server, postedWeeks, webhookUrl, delivered>>

NextPost ==
    \E c \in Callers :
        \/ \E week_id \in WeekIds, force \in BOOLEAN : PostSchedule(c, week_id, force)
        \/ \E answer \in Statuses \cup {Thrown} : FetchSettles(c, answer)
        \/ \E read \in BOOLEAN : TextSettles(c, read)
        \/ DelayEnds(c)

SpecPost == InitPost /\ [][NextPost]_vars

\* The same calls when every await settles: fetch() resolves, rejects or is
\* aborted by the 5 s timer, response.text() resolves or rejects, and the
\* backoff timer fires.
AwaitsSettle ==
    \A c \in Callers :
        /\ WF_vars(\E answer \in Statuses \cup {Thrown} : FetchSettles(c, answer))
        /\ WF_vars(\E read \in BOOLEAN : TextSettles(c, read))
        /\ WF_vars(DelayEnds(c))

\* Each caller makes one call.
NextPostOnce ==
    \E c \in Callers :
        \/ \E week_id \in WeekIds, force \in BOOLEAN :
               calls[c].at = "idle" /\ PostSchedule(c, week_id, force)
        \/ \E answer \in Statuses \cup {Thrown} : FetchSettles(c, answer)
        \/ \E read \in BOOLEAN : TextSettles(c, read)
        \/ DelayEnds(c)

SpecPostSettling == InitPost /\ [][NextPostOnce]_vars /\ AwaitsSettle

\* ------------------------------------------------------------------------
\* POST /generate-schedule: requests handled one after the other, each
\* awaiting its postSchedule() call.
\* ------------------------------------------------------------------------
\* The caller whose postSchedule() call the handler awaits.
HandlerCall == "a"

\* Request bodies: week_id is one of the week ids or is missing; the
\* employees are a record, two records, a record without an id or a record
\* whose id is a number; the template is the day shift of the test suite,
\* or a CMA shift followed by a shift for either of the two roles.
HandlerTeams == { <<AnnCNA>>, <<AnnCNA, BobCMA2>>, <<IdlessEmployee>>, <<NumberedEmployee>> }

HandlerTemplates ==
    { <<ShiftRecord("day", 1)>>, <<ShiftRecord("cma", 1), ShiftRecord("composite", 2)>> }

RequestBodies ==
    [week_id : WeekIds \cup {UndefText}, employees : HandlerTeams,
     shift_template : HandlerTemplates, availability : {AllWeek}]

InitHandler ==
    /\ employees = <<>>
    /\ availability = <<>>
    /\ shiftTemplate = <<>>
    /\ existingAssignments = <<>>
    /\ employeeMap = <<>>
    /\ availabilityMap = normalizeAvailability(<<>>)
    /\ shifts = <<>>
    /\ existing = <<>>
    /\ assignments = <<>>
    /\ issues = <<>>
    /\ totals = [id \in EmployeeIds |-> 0]
    /\ blocks = [id \in EmployeeIds |-> <<>>]
    /\ totalsByEmployee = <<>>
    /\ validationErrors = <<>>
    /\ pc = "listen"
    /\ postedWeeks = {}
    /\ webhookUrl \in {"", "https://hooks.example.com/test"}
    /\ calls = [c \in Callers |-> Idle]
    /\ delivered = {}
    /\ NoCall
    /\ zapierEnabled \in BOOLEAN
    /\ handler = NoHandler
    /\ planner = NoPlan

\* res.status(...).json(...): one more response to the request in hand.
respond(request, response) ==
    [request EXCEPT !.at = "responded", !.responses = Append(@, response)]

\* combinedIssues (lines 140-147).
combinedIssues(resultIssues, errors) ==
    resultIssues \o [n \in DOMAIN errors |-> asIssue(errors[n])]

\* The body of the 200 response (lines 196-205).
generated(request, result, errors, zapierResult) ==
    [status |-> 200, week_id |-> request.week_id,
     assignments |-> result.assignments,
     totalsByEmployee |-> result.totalsByEmployee,
     issues |-> combinedIssues(result.issues, errors),
     zapier |-> responseZapier(zapierResult)]

\* The handler from the arrival of a request to its first await or to its
\* response (lines 120-205, and the catch block of lines 206-240): parse,
\* schedule(), validate(), and the call of postSchedule() when delivery is
\* enabled and a webhook URL is configured. thrown is the case of the catch
\* block of lines 163-167, postSchedule() throwing before it has awaited
\* anything; the payloads built here all pass its payloadSchema.
HandleRequest(body, force, thrown) ==
    /\ handler.at \in {"idle", "responded"}
    /\ LET outcome == parseRequest(body)
           request == [NoHandler EXCEPT !.week_id = body.week_id, !.force = force]
           result == schedule(body.shift_template, body.employees, body.availability, <<>>)
           errors == validate(result.assignments, body.shift_template, body.employees,
                              body.availability)
       IN  /\ employees' = body.employees
           /\ availability' = body.availability
           /\ shiftTemplate' = body.shift_template
           /\ IF outcome # "parsed"
              THEN /\ handler' = respond(request,
                                     [status |-> IF outcome = "ZodError" THEN 400 ELSE 500])
                   /\ assignments' = <<>>
                   /\ issues' = <<>>
                   /\ totalsByEmployee' = <<>>
                   /\ validationErrors' = <<>>
                   /\ UNCHANGED zapier
              ELSE /\ assignments' = result.assignments
                   /\ issues' = result.issues
                   /\ totalsByEmployee' = result.totalsByEmployee
                   /\ validationErrors' = errors
                   /\ IF ~(zapierEnabled /\ webhookUrl # "")
                      THEN /\ handler' = respond(request,
                                  generated(request, result, errors, [ok |-> FALSE, status |-> 0]))
                           /\ UNCHANGED zapier
                      ELSE IF thrown
                      THEN /\ handler' = respond(request,
                                  generated(request, result, errors, [ok |-> FALSE, status |-> 0]))
                           /\ UNCHANGED zapier
                      ELSE /\ handler' = [request EXCEPT !.at = "posting"]
                           /\ calls' = [calls EXCEPT ![HandlerCall] =
                                  postScheduleEntry(body.week_id, force)]
                           /\ UNCHANGED <<postedWeeks, webhookUrl, delivered>>
    /\ UNCHANGED <<existingAssignments, employeeMap, availabilityMap, shifts, existing,
                   totals, blocks, pc, timeMath, zapierEnabled, planner>>

\* await postSchedule(...) resolves (line 162) and the response is sent;
\* the call is over.
PostScheduleReturns ==
    /\ handler.at = "posting"
    /\ calls[HandlerCall].at = "returned"
    /\ handler' = respond(handler,
           generated(handler,
                     [assignments |-> assignments, issues |-> issues,
                      totalsByEmployee |-> totalsByEmployee],
                     validationErrors, calls[HandlerCall].result))
    /\ calls' = [calls EXCEPT ![HandlerCall] = Idle]
    /\ UNCHANGED <<scheduling, postedWeeks, webhookUrl, delivered, timeMath,
                   zapierEnabled, planner>>

\* The awaits of the call, which settle while the handler waits.
HandlerAwaits ==
    /\ handler.at = "posting"
    /\ \/ \E answer \in Statuses \cup {Thrown} : FetchSettles(HandlerCall, answer)
       \/ \E read \in BOOLEAN : TextSettles(HandlerCall, read)
       \/ DelayEnds(HandlerCall)

NextHandler ==
    \/ \E body \in RequestBodies, force \in BOOLEAN, thrown \in BOOLEAN :
           HandleRequest(body, force, thrown)
    \/ HandlerAwaits
    \/ PostScheduleReturns

SpecHandler == InitHandler /\ [][NextHandler]_vars

\* ------------------------------------------------------------------------
\* planSchedule(): one call, interleaved with the answers of the AI service
\* at its two awaits.
\* ------------------------------------------------------------------------
\* What client.responses.create() resolves to: a response without an
\* output list, with an empty one, with a text message, with a tool call
\* as an item, and with a tool call inside a message.
AiResponses ==
    { [id |-> "resp_0"],
      [id |-> "resp_1", output |-> <<>>],
      [id |-> "resp_2", output |-> <<[type |-> "message", content |-> <<[type |-> "text"]>>]>>],
      [id |-> "resp_3", output |-> <<[type |-> "tool_call", id |-> "call_1"]>>],
      [id |-> "resp_4", output |-> <<[type |-> "message",
                                      content |-> <<[type |-> "text"],
                                                    [type |-> "tool_call", id |-> "call_2"]>>]>>] }

\* Array.prototype.filter on a list.
RECURSIVE toolCallsOf(_, _)
toolCallsOf(items, n) ==
    IF n > Len(items) THEN <<>>
    ELSE (IF items[n].type = "tool_call" THEN <<items[n]>> ELSE <<>>)
         \o toolCallsOf(items, n + 1)

RECURSIVE extractToolCallsFrom(_, _)
\* The loop of extractToolCalls over response.output from item n on.
extractToolCallsFrom(output, n) ==
    IF n > Len(output) THEN <<>>
    ELSE LET item == output[n] IN
         (IF item.type = "tool_call" THEN <<item>>
          ELSE IF item.type = "message" /\ "content" \in DOMAIN item
          THEN toolCallsOf(item.content, 1)
          ELSE <<>>)
         \o extractToolCallsFrom(output, n + 1)

extractToolCalls(response) ==
    IF "output" \notin DOMAIN response THEN <<>>
    ELSE extractToolCallsFrom(response.output, 1)

\* runLocalScheduler(args) (lines 631-649).
runLocalScheduler(args) ==
    schedule(args.shiftTemplate, args.employees, args.availability, args.existing)
        @@ [mode |-> "local"]

\* The arguments of the call.
planArgs ==
    [shiftTemplate |-> shiftTemplate, employees |-> employees,
     availability |-> availability, existing |-> existingAssignments]

\* A catch block that reports nothing.
fallbackIssues_unreported(fallbackIssues_, message) == fallbackIssues_

\* The issues of the catch block of planSchedule (lines 782-788): a copy of
\* the fallback's issues and one more entry.
fallbackIssues(fallbackIssues_, message) ==
    Append(fallbackIssues_,
           [shift_id |-> NullId, employee_id |-> NullId,
            reason |-> <<"AI planner failed: ", message>>, type |-> "ai_planner_error"])

\* planSchedule's catch block (lines 780-798) after invokeAiPlanner threw
\* at step with message.
fallback(plan, step, message) ==
    [plan EXCEPT !.at = "returned", !.thrown = step,
                 !.result = [runLocalScheduler(planArgs) EXCEPT
                                 !.issues = fallbackIssues(@, message),
                                 !.mode = "fallback"]]

\* The templates and pairings of the calls.
PlanTemplates ==
    { <<ShiftRecord("day", 1)>>,
      <<ShiftRecord("day", 1), ShiftRecord("afternoon", 2)>>,
      <<ShiftRecord("cma", 1), ShiftRecord("composite", 2)>> }

InitPlan ==
    /\ employees \in { <<AnnCNA>>, <<AnnCNA, BobCMA2>> }
    /\ availability = AllWeek
    /\ shiftTemplate \in PlanTemplates
    /\ existingAssignments \in { <<>>, <<[shift_id |-> 1, employee_id |-> "e2"]>> }
    /\ employeeMap = <<>>
    /\ availabilityMap = normalizeAvailability(<<>>)
    /\ shifts = <<>>
    /\ existing = <<>>
    /\ assignments = <<>>
    /\ issues = <<>>
    /\ totals = [id \in EmployeeIds |-> 0]
    /\ blocks = [id \in EmployeeIds |-> <<>>]
    /\ totalsByEmployee = <<>>
    /\ validationErrors = <<>>
    /\ pc = "plan"
    /\ NoDelivery
    /\ NoCall
    /\ zapierEnabled = TRUE
    /\ handler = NoHandler
    /\ planner \in { [NoPlan EXCEPT !.USE_AI_FLAG = flag, !.OPENAI_API_KEY = key] :
                         flag \in BOOLEAN, key \in BOOLEAN }

\* planSchedule(args) up to its return or to the first await of
\* invokeAiPlanner (lines 774-779, 651-705): without the flag the local
\* result; without a key ensureOpenAIClient throws.
PlanSchedule ==
    /\ planner.at = "idle"
    /\ planner' =
           IF ~planner.USE_AI_FLAG
           THEN [planner EXCEPT !.at = "returned", !.result = runLocalScheduler(planArgs)]
           ELSE IF ~planner.OPENAI_API_KEY
           THEN fallback(planner, "client", "Missing OPENAI_API_KEY environment variable.")
           ELSE [planner EXCEPT !.at = "first"]
    /\ UNCHANGED <<scheduling, zapier, timeMath, zapierEnabled, handler>>

\* The first client.responses.create() rejects (lines 707-709).
FirstRequestRejects ==
    /\ planner.at = "first"
    /\ planner' = fallback(planner, "first", "OpenAI Responses API error: ")
    /\ UNCHANGED <<scheduling, zapier, timeMath, zapierEnabled, handler>>

\* The first client.responses.create() resolves (lines 711-756): without a
\* tool call in the response invokeAiPlanner throws; with one, schedule()
\* runs and the follow-up request is made.
FirstRequestResolves(response) ==
    /\ planner.at = "first"
    /\ planner' =
           IF Len(extractToolCalls(response)) = 0
           THEN fallback(planner, "tool", "OpenAI response did not request the schedule tool.")
           ELSE [planner EXCEPT
                    !.at = "followup",
                    !.localResult = schedule(shiftTemplate, employees, availability,
                                             existingAssignments)]
    /\ UNCHANGED <<scheduling, zapier, timeMath, zapierEnabled, handler>>

\* The follow-up client.responses.create() rejects (lines 757-759).
FollowUpRejects ==
    /\ planner.at = "followup"
    /\ planner' = fallback(planner, "followup", "OpenAI follow-up response failed: ")
    /\ UNCHANGED <<scheduling, zapier, timeMath, zapierEnabled, handler>>

\* The follow-up resolves and invokeAiPlanner returns (lines 761-771).
FollowUpResolves ==
    /\ planner.at = "followup"
    /\ planner' = [planner EXCEPT
           !.at = "returned",
           !.result = planner.localResult @@ [mode |-> "ai"]]
    /\ UNCHANGED <<scheduling, zapier, timeMath, zapierEnabled, handler>>

NextPlan ==
    \/ PlanSchedule
    \/ FirstRequestRejects
    \/ \E response \in AiResponses : FirstRequestResolves(response)
    \/ FollowUpRejects
    \/ FollowUpResolves

SpecPlan == InitPlan /\ [][NextPlan]_vars

\* ------------------------------------------------------------------------
\* time.js on its own: normalizeShiftRecords() on one record with full
\* timestamps, overlaps() on a block list and a candidate, and the tests
\* that scheduler and validator make with the normalized shift.
\* ------------------------------------------------------------------------
\* The start of the candidate, and its end as hours after that start: a
\* day shift, an end equal to the start, an overnight end, and ends a day,
\* thirty hours, two days, fifty and sixty hours before the start.
Origin == 100 * MS_IN_HOUR
EndOffsets == {12, 0, -6, -24, -30, -48, -50, -60}
At(h) == Origin + h * MS_IN_HOUR

\* The text of a full timestamp for an instant; text no Date parses for null.
Timestamp(instant) ==
    IF instant = NoTime THEN Garbled ELSE [k |-> "iso", v |-> instant]

Block(shiftId, start, end) == [start |-> start, end |-> end, shiftId |-> shiftId]

\* Existing blocks, by hours around the candidate's start: one across it,
\* one ending at it, one starting where the overnight candidate ends, a
\* later one, one that contains every candidate, one written as an
\* overnight range, one whose end is more than a day before its start, and
\* one without a start.
BlockChoices ==
    << Block(11, At(-3), At(2)),
       Block(12, At(-5), At(0)),
       Block(13, At(18), At(20)),
       Block(14, At(20), At(23)),
       Block(15, At(-70), At(70)),
       Block(16, At(1), At(-1)),
       Block(17, At(5), At(-40)),
       Block(18, NoTime, At(0)) >>

BlockLists ==
    {<<>>}
    \cup { <<BlockChoices[n]>> : n \in 1..Len(BlockChoices) }
    \cup { <<BlockChoices[2], BlockChoices[1]>>, <<BlockChoices[7], BlockChoices[4]>>,
           <<BlockChoices[2], BlockChoices[3]>> }

\* The shift record whose start_time and end_time are the call's instants.
TimedRecord ==
    [id |-> 1, role_needed |-> "CNA",
     start_time |-> Timestamp(timeArgs.start), end_time |-> Timestamp(timeArgs.end)]

InitTime ==
    /\ timeArgs \in [start : {Origin, NoTime},
                     end : {At(h) : h \in EndOffsets} \cup {NoTime},
                     blocks : BlockLists]
    /\ timeResult = NoResult
    /\ employees = <<>>
    /\ availability = <<>>
    /\ shiftTemplate = <<TimedRecord>>
    /\ existingAssignments = <<>>
    /\ employeeMap = <<>>
    /\ availabilityMap = normalizeAvailability(<<>>)
    /\ shifts = <<>>
    /\ existing = <<>>
    /\ assignments = <<>>
    /\ issues = <<>>
    /\ totals = [id \in EmployeeIds |-> 0]
    /\ blocks = [id \in EmployeeIds |-> <<>>]
    /\ totalsByEmployee = <<>>
    /\ validationErrors = <<>>
    /\ pc = "time"
    /\ NoDelivery
    /\ NoRequest

\* overlaps(blocks, start, end) is called with the instants as they are.
Overlaps ==
    /\ pc = "time"
    /\ timeResult' = [timeResult EXCEPT
           !.overlaps = overlaps(timeArgs.blocks, timeArgs.start, timeArgs.end)]
    /\ pc' = "overlaps"
    /\ UNCHANGED <<employees, availability, shiftTemplate, existingAssignments,
                   employeeMap, availabilityMap, shifts, existing, assignments, issues,
                   totals, blocks, totalsByEmployee, validationErrors, zapier, timeArgs, server>>

\* normalizeShiftRecords() is called on the record of the two instants.
NormalizeShift ==
    /\ pc = "time"
    /\ shifts' = normalizeShiftRecords(shiftTemplate)
    /\ pc' = "normalized"
    /\ UNCHANGED <<employees, availability, shiftTemplate, existingAssignments,
                   employeeMap, availabilityMap, existing, assignments, issues,
                   totals, blocks, totalsByEmployee, validationErrors, zapier, timeMath, server>>

\* The range of a block as an availability window holds it.
WindowOf(block) ==
    LET range == normalizeRange(block.start, block.end) IN
    [start |-> range.start, end |-> range.end, preferred |-> FALSE]

\* The tests made with the normalized shift, against each block of the
\* call: the shift as candidate of overlaps() (scheduler.js:109, 163), the
\* shift as the committed block (scheduler.js:80, validator lines 123-127
\* and 145), and the block's range as an availability window for
\* coverageForShift() and for the validator's coverage test.
CompareShift ==
    /\ pc = "normalized"
    /\ LET shift == shifts[1]
           committed == Block(shift.id, shift.start, shift.end)
           each == DOMAIN timeArgs.blocks
       IN  timeResult' = [timeResult EXCEPT
               !.asCandidate = [n \in each |->
                   overlaps(<<timeArgs.blocks[n]>>, shift.start, shift.end)],
               !.asBlock = [n \in each |->
                   overlaps(<<committed>>, timeArgs.blocks[n].start, timeArgs.blocks[n].end)],
               !.coverage = [n \in each |->
                   coverageForShift(<<WindowOf(timeArgs.blocks[n])>>,
                                    shift.start, shift.end).available],
               !.hasCoverage = [n \in each |->
                   hasCoverage(<<WindowOf(timeArgs.blocks[n])>>, shift)]]
    /\ pc' = "compared"
    /\ UNCHANGED <<employees, availability, shiftTemplate, existingAssignments,
                   employeeMap, availabilityMap, shifts, existing, assignments, issues,
                   totals, blocks, totalsByEmployee, validationErrors, zapier, timeArgs, server>>

NextTime == Overlaps \/ NormalizeShift \/ CompareShift

SpecTime == InitTime /\ [][NextTime]_vars

\* ------------------------------------------------------------------------
\* data.js on its own: each normalizer on one record that gives its fields
\* at the top level, in a nested field bag, or in both places.
\* ------------------------------------------------------------------------
\* A record without fields, to which fields are added with @@.
NoFields == [key \in {} |-> Absent]

\* The times of a record at its top level and in its bag: none, two full
\* timestamps, or a date and two times of day. The bag's differ from the
\* top level's and use other aliases.
TopTimes ==
    { NoFields,
      ("start_time" :> ISO(31)) @@ ("end_time" :> ISO(43)),
      ("date" :> Day(1)) @@ ("start" :> HM(7)) @@ ("end" :> HM(19)) }
BagTimes ==
    { NoFields,
      ("Start" :> ISO(55)) @@ ("End" :> ISO(67)),
      ("Date" :> Day(3)) @@ ("start_time" :> HM(8)) @@ ("end_time" :> HM(20)) }

\* The record, and the record with the bag under "fields".
WithBag(top, bags) == {top} \cup { top @@ ("fields" :> bag) : bag \in bags }

ShiftReadRecords ==
    UNION { WithBag(id @@ role @@ times,
                    { bagId @@ bagRole @@ bagTimes :
                          bagId \in {NoFields, "shift_id" :> 2},
                          bagRole \in {NoFields, "role_needed" :> "CNA"},
                          bagTimes \in BagTimes }) :
                id \in {NoFields, "id" :> 1},
                role \in {NoFields, "role" :> "cma"},
                times \in TopTimes }

WindowReadRecords ==
    UNION { WithBag(link @@ type @@ times,
                    { bagLink @@ bagType @@ bagTimes :
                          bagLink \in {NoFields, "Employee" :> Many(<<"e2">>)},
                          bagType \in {NoFields, "Type" :> "Unavailable"},
                          bagTimes \in BagTimes }) :
                link \in {NoFields, "employee_id" :> One("e1")},
                type \in {NoFields, "type" :> "Preferred"},
                times \in TopTimes }

EmployeeReadRecords ==
    UNION { WithBag(id @@ role @@ status,
                    { bagId @@ bagRole @@ bagStatus :
                          bagId \in {NoFields, "employee_id" :> "e2"},
                          bagRole \in {NoFields, "role" :> " cna "},
                          bagStatus \in {NoFields, "status" :> " ACTIVE"} }) :
                id \in {NoFields, "id" :> "e1"},
                role \in {NoFields, "role" :> "cma"},
                status \in {NoFields, "status" :> "Inactive"} }

InitRead ==
    /\ \/ /\ shiftTemplate \in { <<record>> : record \in ShiftReadRecords }
          /\ availability = <<>> /\ employees = <<>>
       \/ /\ availability \in { <<record>> : record \in WindowReadRecords }
          /\ shiftTemplate = <<>> /\ employees = <<>>
       \/ /\ employees \in { <<record>> : record \in EmployeeReadRecords }
          /\ shiftTemplate = <<>> /\ availability = <<>>
    /\ existingAssignments = <<>>
    /\ employeeMap = <<>>
    /\ availabilityMap = normalizeAvailability(<<>>)
    /\ shifts = <<>>
    /\ existing = <<>>
    /\ assignments = <<>>
    /\ issues = <<>>
    /\ totals = [id \in EmployeeIds |-> 0]
    /\ blocks = [id \in EmployeeIds |-> <<>>]
    /\ totalsByEmployee = <<>>
    /\ validationErrors = <<>>
    /\ pc = "read"
    /\ NoDelivery
    /\ NoCall
    /\ NoRequest

ReadShifts ==
    /\ pc = "read" /\ shiftTemplate # <<>>
    /\ shifts' = normalizeShiftRecords(shiftTemplate)
    /\ pc' = "shifts"
    /\ UNCHANGED <<employees, availability, shiftTemplate, existingAssignments,
                   employeeMap, availabilityMap, existing, assignments, issues,
                   totals, blocks, totalsByEmployee, validationErrors, zapier, timeMath, server>>

ReadAvailability ==
    /\ pc = "read" /\ availability # <<>>
    /\ availabilityMap' = normalizeAvailability(availability)
    /\ pc' = "windows"
    /\ UNCHANGED <<employees, availability, shiftTemplate, existingAssignments,
                   employeeMap, shifts, existing, assignments, issues,
                   totals, blocks, totalsByEmployee, validationErrors, zapier, timeMath, server>>

ReadEmployees ==
    /\ pc = "read" /\ employees # <<>>
    /\ employeeMap' = normalizeEmployees(employees)
    /\ pc' = "employees"
    /\ UNCHANGED <<employees, availability, shiftTemplate, existingAssignments,
                   availabilityMap, shifts, existing, assignments, issues,
                   totals, blocks, totalsByEmployee, validationErrors, zapier, timeMath, server>>

NextRead == ReadShifts \/ ReadAvailability \/ ReadEmployees

SpecRead == InitRead /\ [][NextRead]_vars

\* ------------------------------------------------------------------------
\* Properties of schedule() and validate().
\* ------------------------------------------------------------------------
\* The reasons schedule() gives for an unfilled shift.
CapReason == <<"All available employees would exceed their weekly cap.">>
ConflictReason == <<"All available employees have conflicting assignments.">>
WindowReason == <<"No employees are available during the shift window.">>
TimesReason == <<"Shift is missing start or end time.">>
ReleasedReason == <<"Existing assignment violates scheduling rules and was released.">>
RoleReason(needed) ==
    <<"No employees available for role ", IF needed = "" THEN "Either" ELSE needed, ".">>

HasTimes(shift) == shift.start # NoTime /\ shift.end # NoTime
IsFilled(i) == assignments[i].employeeId # NullId

RECURSIVE AssignedHours(_, _, _)
\* Sum of the hours of the first n shifts whose assignment names employeeId.
AssignedHours(sh, employeeId, n) ==
    IF n = 0 THEN 0
    ELSE AssignedHours(sh, employeeId, n - 1)
         + (IF assignments[n].employeeId = employeeId THEN sh[n].hours ELSE 0)

\* Number of the first n assignments that name employeeId.
AssignedCount(employeeId, n) ==
    Cardinality({j \in 1..n : assignments[j].employeeId = employeeId})

\* Two shift intervals share an instant (half-open intervals).
Intersect(a, b) == a.start < b.end /\ b.start < a.end

\* employeeId holds, among the first n shifts, one that intersects shift.
BookedAcross(sh, employeeId, n, shift) ==
    \E j \in 1..n : assignments[j].employeeId = employeeId /\ Intersect(sh[j], shift)

\* An availability window of employeeId contains the whole shift.
Covered(employeeId, shift) ==
    coverageForShift(availabilityMap[employeeId], shift.start, shift.end).available

\* A covering window of employeeId is marked preferred.
PreferredFor(employeeId, shift) ==
    coverageForShift(availabilityMap[employeeId], shift.start, shift.end).preferred

\* Role compatibility as the data model declares it: an employee of role X
\* fits a shift requiring X, the composite requirement fits CNA and CMA, and
\* the empty requirement fits every role.
RoleFits(empRole, roleNeeded) ==
    \/ roleNeeded = ""
    \/ empRole = roleNeeded
    \/ roleNeeded = "CNA_OR_CMA" /\ empRole \in {"CNA", "CMA"}

\* Under a role test fits: the active employees of a fitting role with a
\* window covering shift; those of them that stay within cap with shift i
\* added; and those of these that hold no shift intersecting shift i.
CoveredCandidates(fits(_, _), shift) ==
    {k \in 1..Len(employeeMap) :
        /\ employeeMap[k].status = "active"
        /\ fits(employeeMap[k].role, shift.roleNeeded)
        /\ Covered(employeeMap[k].id, shift)}

CapCandidates(fits(_, _), sh, i) ==
    {k \in CoveredCandidates(fits, sh[i]) :
        AssignedHours(sh, employeeMap[k].id, i - 1) + sh[i].hours <= employeeMap[k].weeklyCap}

Survivors(fits(_, _), sh, i) ==
    {k \in CapCandidates(fits, sh, i) :
        ~BookedAcross(sh, employeeMap[k].id, i - 1, sh[i])}

\* The request of the weekly-cap test: four daily 12-hour shifts and one
\* fully available employee with cap 40.
CapInstance ==
    /\ employees = <<AnnCNA>>
    /\ availability = AllWeek
    /\ shiftTemplate = [pos \in 1..4 |-> ShiftRecord("day", pos)]

WeeklyCapRule(fits(_, _)) ==
    LET sh == shifts IN
    /\ Len(assignments) = Len(sh)
    /\ \A k \in 1..Len(employeeMap) :
           AssignedHours(sh, employeeMap[k].id, Len(sh)) <= employeeMap[k].weeklyCap
    /\ \A i \in 1..Len(sh) :
           (CoveredCandidates(fits, sh[i]) # {} /\ CapCandidates(fits, sh, i) = {})
               => assignments[i].employeeId = NullId /\ assignments[i].reason = CapReason
    /\ CapInstance =>
           /\ \A i \in 1..3 : assignments[i].employeeId = "e1"
           /\ assignments[4].employeeId = NullId
           /\ assignments[4].reason = CapReason

\* C1: for every employee the hours of the shifts assigned to them sum to at
\* most their weeklyCap; a shift whose role-compatible, available candidates
\* would all go over the cap is unfilled with the weekly-cap reason; four
\* daily 12-hour shifts and one fully available employee with cap 40 give
\* three shifts filled and the fourth unfilled.
C1_WeeklyCap == WeeklyCapRule(RoleFits)

\* The same with the role test schedule() applies in place of the declared
\* rule: the sum, the reason and the instance, for the pool accepts() lets
\* through.
WeeklyCapAsScheduled == WeeklyCapRule(accepts)

NoOverlapRule(fits(_, _)) ==
    LET sh == shifts IN
    /\ Len(assignments) = Len(sh)
    /\ \A i, j \in 1..Len(sh) :
           (i < j /\ IsFilled(i) /\ assignments[i].employeeId = assignments[j].employeeId)
               => ~Intersect(sh[i], sh[j])
    /\ \A i \in 1..Len(sh) :
           (CapCandidates(fits, sh, i) # {} /\ Survivors(fits, sh, i) = {})
               => /\ assignments[i].employeeId = NullId
                  /\ assignments[i].reason = ConflictReason

\* C2: no two shifts assigned to the same employee intersect; when every
\* candidate within cap already holds an intersecting shift, the later shift
\* is unfilled with the conflict reason (the earlier one, holding the
\* employee, stays filled).
C2_NoOverlap == NoOverlapRule(RoleFits)

\* The same for the pool accepts() lets through.
NoOverlapAsScheduled == NoOverlapRule(accepts)

\* C3: no shift is paired with an employee whose role differs from the
\* specific role it requires; a shift requiring role X that an active
\* employee of role X exists for is not refused for want of the role; a CMA
\* shift offered to an available CNA and an available CMA goes to the CMA.
C3_RoleInstance ==
    /\ employees = <<AnnCNA, BobCMA2>>
    /\ availability = AllWeek
    /\ shiftTemplate = <<ShiftRecord("cma", 1)>>

C3_RoleMatch ==
    LET sh == shifts IN
    /\ Len(assignments) = Len(sh)
    /\ \A i \in 1..Len(sh) :
           IsFilled(i) =>
               /\ mapHas(employeeMap, assignments[i].employeeId)
               /\ RoleFits(mapGet(employeeMap, assignments[i].employeeId).role,
                           sh[i].roleNeeded)
    /\ \A i \in 1..Len(sh) :
           (/\ HasTimes(sh[i])
            /\ sh[i].roleNeeded # ""
            /\ \E k \in 1..Len(employeeMap) :
                   employeeMap[k].status = "active" /\ employeeMap[k].role = sh[i].roleNeeded)
               => assignments[i].reason # RoleReason(sh[i].roleNeeded)
    /\ C3_RoleInstance => assignments[1].employeeId = "e2"

C3_Witness ==
    /\ C3_RoleInstance
    /\ pc = "done"
    /\ assignments[1].employeeId = "e2"

\* Some employee could take shift i: active, of a fitting role, covered by a
\* window, within cap with the shift added, and free of intersecting shifts.
Eligible(sh, i, k) ==
    /\ employeeMap[k].status = "active"
    /\ RoleFits(employeeMap[k].role, sh[i].roleNeeded)
    /\ Covered(employeeMap[k].id, sh[i])
    /\ AssignedHours(sh, employeeMap[k].id, i - 1) + sh[i].hours <= employeeMap[k].weeklyCap
    /\ ~BookedAcross(sh, employeeMap[k].id, i - 1, sh[i])

\* C4: a shift whose requirement is absent, "Either" or the composite
\* CNA_OR_CMA is filled whenever an active, available, within-cap employee
\* of a fitting role (any role for the first two) is free for it.
C4_AnyRoleFilled ==
    LET sh == shifts IN
    \A i \in 1..Len(sh) :
        (/\ HasTimes(sh[i])
         /\ sh[i].roleNeeded \in {"", "CNA_OR_CMA"}
         /\ \E k \in 1..Len(employeeMap) : Eligible(sh, i, k))
            => IsFilled(i)

\* C5: a shift with valid times for which no active employee has a fitting
\* role is unfilled with the reason naming the role, and an issue with that
\* reason is recorded for it.
C5_NoRoleUnfilled ==
    LET sh == shifts IN
    /\ Len(assignments) = Len(sh)
    /\ \A i \in 1..Len(sh) :
           (/\ HasTimes(sh[i])
            /\ ~\E k \in 1..Len(employeeMap) :
                   /\ employeeMap[k].status = "active"
                   /\ RoleFits(employeeMap[k].role, sh[i].roleNeeded))
               => /\ assignments[i].employeeId = NullId
                  /\ assignments[i].reason = RoleReason(sh[i].roleNeeded)
                  /\ \E n \in 1..Len(issues) :
                         /\ issues[n].shiftId = sh[i].id
                         /\ issues[n].reason = RoleReason(sh[i].roleNeeded)

\* A CNA shift offered only a fully available CMA employee with capacity.
C5_Witness ==
    /\ pc = "done"
    /\ Len(employeeMap) = 1
    /\ employeeMap[1].role = "CMA"
    /\ Len(shifts) = 1
    /\ shifts[1].roleNeeded = "CNA"
    /\ Covered("e1", shifts[1])
    /\ shifts[1].hours <= employeeMap[1].weeklyCap
    /\ assignments[1].employeeId = NullId
    /\ assignments[1].reason = <<"No employees available for role ", "CNA", ".">>

\* C6: validate() over the assignments schedule() returned, with the same
\* request lists, reports no error.
C6_ValidatorAgrees == pc = "done" => validationErrors = <<>>

\* Every error the validator raises on schedule()'s own output is a
\* role_mismatch on a shift with the composite requirement.
OnlyCompositeMismatch ==
    pc = "done" =>
        \A n \in 1..Len(validationErrors) :
            /\ validationErrors[n].type = "role_mismatch"
            /\ \E i \in 1..Len(shifts) :
                   /\ <<shifts[i].id>> = validationErrors[n].shiftId
                   /\ shifts[i].roleNeeded = "CNA_OR_CMA"

\* The supplied entry n names a known shift and a known employee.
Checked(n) ==
    LET shiftId == firstTruthy(assignments[n], "shiftId", "shift_id", 0)
        employeeId == firstTruthy(assignments[n], "employeeId", "employee_id", NullId)
    IN  shiftId # 0 /\ employeeId # NullId
        /\ mapHas(shifts, shiftId) /\ mapHas(employeeMap, employeeId)

ShiftOf(n) == mapGet(shifts, firstTruthy(assignments[n], "shiftId", "shift_id", 0))
EmployeeOf(n) ==
    mapGet(employeeMap, firstTruthy(assignments[n], "employeeId", "employee_id", NullId))

HasError(type, shiftIds, employeeId) ==
    \E n \in 1..Len(validationErrors) :
        validationErrors[n] = validationError(type, shiftIds, employeeId)

\* C7: validate() reports role_mismatch for a checked assignment exactly
\* when the shift requires a specific role and the employee's role differs
\* from it; never for a shift whose requirement is "any role".
C7_RoleMismatchExact ==
    pc = "validated" =>
        \A n \in 1..Len(assignments) :
            Checked(n) =>
                LET shift == ShiftOf(n)
                    employee == EmployeeOf(n)
                IN  HasError("role_mismatch", <<shift.id>>, employee.id)
                        <=> (shift.roleNeeded # "" /\ employee.role # shift.roleNeeded)

\* The same with the any-role shifts left out.
RoleMismatchOnNamedRoles ==
    pc = "validated" =>
        \A n \in 1..Len(assignments) :
            (Checked(n) /\ ShiftOf(n).roleNeeded # "") =>
                LET shift == ShiftOf(n)
                    employee == EmployeeOf(n)
                IN  HasError("role_mismatch", <<shift.id>>, employee.id)
                        <=> employee.role # shift.roleNeeded

\* A 'released' issue was recorded for shift i.
Released(sh, i) ==
    \E n \in 1..Len(issues) :
        issues[n].shiftId = sh[i].id /\ issues[n].reason = ReleasedReason

\* Assignment i keeps the pairing supplied for shift i.
Kept(sh, i) ==
    /\ existingGet(existing, sh[i].id) # ""
    /\ assignments[i].employeeId = existingGet(existing, sh[i].id)
    /\ ~Released(sh, i)

\* The order of the pick, on what employee k holds before shift i: a
\* preferred covering window first, then fewer hours, then fewer shifts,
\* then the smaller name, then the earlier place in the employee list.
PickKey(sh, i, k) ==
    << IF PreferredFor(employeeMap[k].id, sh[i]) THEN 0 ELSE 1,
       AssignedHours(sh, employeeMap[k].id, i - 1),
       AssignedCount(employeeMap[k].id, i - 1),
       nameRank(employeeMap[k].name),
       k >>

Before(sh, i, c, d) ==
    LET x == PickKey(sh, i, c)
        y == PickKey(sh, i, d)
    IN  \E n \in 1..5 : x[n] < y[n] /\ \A m \in 1..(n - 1) : x[m] = y[m]

\* The request of the balancing test: two CNA employees, both available all
\* week, and day shifts on two days.
BalanceInstance ==
    /\ employees = <<AnnCNA, AnnCNA2>>
    /\ availability = AllWeek
    /\ shiftTemplate = <<ShiftRecord("day", 1), ShiftRecord("day", 2)>>

TieBreakRule(fits(_, _)) ==
    LET sh == shifts IN
    /\ Len(assignments) = Len(sh)
    /\ \A i \in 1..Len(sh) :
           ~Kept(sh, i) =>
               /\ IsFilled(i) =>
                      \E c \in Survivors(fits, sh, i) :
                          employeeMap[c].id = assignments[i].employeeId
               /\ \A d \in Survivors(fits, sh, i) :
                      \E c \in Survivors(fits, sh, i) :
                          /\ employeeMap[c].id = assignments[i].employeeId
                          /\ (c = d \/ Before(sh, i, c, d))
    /\ BalanceInstance =>
           AssignedCount("e1", 2) = 1 /\ AssignedCount("e2", 2) = 1

\* C8: a shift that is not a kept pairing goes to the least of the
\* candidates that survive the role, availability, cap and conflict filters:
\* a preferred covering window first, then lower cumulative hours, then
\* fewer committed assignments, then the smaller name, then the earlier
\* place in the employee list; two same-role employees available for two
\* day shifts on different days get one shift each.
C8_TieBreak == TieBreakRule(RoleFits)

\* The same for the candidates accepts() lets through.
TieBreakAsScheduled == TieBreakRule(accepts)

\* The id of a raw shift record, 0 when it has none.
RawShiftId(record) ==
    readField(record, <<"id", "shift_id", "Shift Id", "shiftId">>, UndefNumber)

\* C9 as stated: assignments has one entry per input shift record, in input
\* order, the i-th entry carrying the id of the i-th record.
C9_OneEntryPerRecord ==
    /\ Len(assignments) = Len(shiftTemplate)
    /\ \A i \in 1..Len(assignments) :
           assignments[i].shiftId = RawShiftId(shiftTemplate[i])

\* C9: assignments has one entry per input shift record that carries an id,
\* in input order, the i-th entry carrying the id of the i-th such record,
\* whatever the outcome; a record without an id gets no entry.
C9_OneEntryPerIdentifiedRecord ==
    LET identified == SelectSeq(shiftTemplate, LAMBDA record : RawShiftId(record) # UndefNumber)
    IN  /\ Len(assignments) = Len(identified)
        /\ \A i \in 1..Len(assignments) :
               assignments[i].shiftId = RawShiftId(identified[i])

\* A record without an id followed by one with an id: the result has the one
\* entry of the second.
C9_Witness ==
    /\ pc = "done"
    /\ Len(shiftTemplate) = 2
    /\ RawShiftId(shiftTemplate[1]) = UndefNumber
    /\ RawShiftId(shiftTemplate[2]) = 2
    /\ Len(assignments) = 1
    /\ assignments[1].shiftId = 2

\* Under a role test fits, the pairing of shift i with employeeId can be
\* kept: the employee exists, is active, of a fitting role, covered by a
\* window, within cap with the shift added, and holds no intersecting shift.
Keepable(fits(_, _), sh, i, employeeId) ==
    \E k \in Survivors(fits, sh, i) : employeeMap[k].id = employeeId

KeepOrReleaseRule(fits(_, _)) ==
    LET sh == shifts IN
    /\ Len(assignments) = Len(sh)
    /\ \A i \in 1..Len(sh) :
           LET e == existingGet(existing, sh[i].id)
               issuesOfShift == {n \in 1..Len(issues) : issues[n].shiftId = sh[i].id}
           IN  (e # "" /\ HasTimes(sh[i])) =>
                   IF Keepable(fits, sh, i, e)
                   THEN assignments[i].employeeId = e /\ issuesOfShift = {}
                   ELSE /\ Cardinality({n \in issuesOfShift :
                                /\ issues[n].employeeId = e
                                /\ issues[n].reason = ReleasedReason}) = 1
                        /\ IF IsFilled(i)
                           THEN Keepable(fits, sh, i, assignments[i].employeeId)
                           ELSE Survivors(fits, sh, i) = {}

\* C10: a shift with parsed times whose supplied pairing names an employee
\* that exists, is active, role-compatible, covered, within cap and free is
\* paired with that employee and has no issue; otherwise exactly one issue
\* with that employeeId and the 'released' reason is recorded and the shift
\* is assigned afresh.
C10_KeepOrRelease == KeepOrReleaseRule(RoleFits)

\* The same with the role test schedule() applies.
KeepOrReleaseAsScheduled == KeepOrReleaseRule(accepts)

\* A pairing on a shift whose times did not parse is neither kept nor
\* released: the shift has the one missing-times issue.
UntimedPairingIgnored ==
    LET sh == shifts IN
    \A i \in 1..Len(sh) :
        (existingGet(existing, sh[i].id) # "" /\ ~HasTimes(sh[i])) =>
            /\ assignments[i].employeeId = NullId
            /\ assignments[i].reason = TimesReason
            /\ ~Released(sh, i)

\* The supplied pairings are all in the result: the shift of each is paired
\* with the employee it names and no 'released' issue names the shift.
PairingsKept ==
    \A n \in 1..Len(existingAssignments) :
        LET shiftId == existingAssignments[n].shift_id
            employeeId == existingAssignments[n].employee_id
        IN  /\ \E i \in 1..Len(assignments) :
                   assignments[i].shiftId = shiftId /\ assignments[i].employeeId = employeeId
            /\ ~\E m \in 1..Len(issues) :
                   issues[m].shiftId = shiftId /\ issues[m].reason = ReleasedReason

\* validate() finds nothing wrong with the supplied pairings.
PairingsValid ==
    /\ existingAssignments # <<>>
    /\ validate(existingAssignments, shiftTemplate, employees, availability) = <<>>

RECURSIVE KnownIds(_)
KnownIds(n) ==
    IF n = 0 THEN <<>>
    ELSE LET id == readField(employees[n], <<"id", "employee_id", "employeeId">>, UndefText)
             before == KnownIds(n - 1)
         IN  IF id = "" \/ \E j \in 1..Len(before) : before[j] = id
             THEN before ELSE Append(before, id)

\* totalsByEmployee lists the employee records with an id in record order,
\* also one without any shift; its hours are given by hoursOf from the sum
\* of the hours of the shifts whose assignment names the employee, and its
\* assignments are the number of such entries.
TotalsRule(hoursOf(_)) ==
    pc = "done" =>
        LET ids == KnownIds(Len(employees)) IN
        /\ Len(totalsByEmployee) = Len(ids)
        /\ \A k \in 1..Len(ids) :
               /\ totalsByEmployee[k].employeeId = ids[k]
               /\ totalsByEmployee[k].hours =
                      hoursOf(AssignedHours(shifts, ids[k], Len(shifts)))
               /\ totalsByEmployee[k].assignments = AssignedCount(ids[k], Len(assignments))

SameNumber(x) == x

\* C12: in totalsByEmployee, hours equals the sum of the hours of the shifts
\* whose assignment names the employee and assignments equals the number of
\* such entries; an employee without a shift has an entry with zeros.
C12_TotalsMatchAssignments == TotalsRule(SameNumber)

\* C12, with the hours as summarizeTotals() reports them: the sum rounded to
\* two decimals.
C12_TotalsMatchRoundedSum == TotalsRule(toFixed2)

\* Two employees with ids: one holds a shift of 5 h 40 min, reported as 5.67
\* hours, and a second shift; the other holds none.
C12_Witness ==
    /\ pc = "done"
    /\ Len(totalsByEmployee) = 2
    /\ \E k \in 1..2 :
           /\ totalsByEmployee[k].assignments = 2
           /\ totalsByEmployee[k].hours # totals[totalsByEmployee[k].employeeId]
    /\ \E k \in 1..2 :
           totalsByEmployee[k].hours = 0 /\ totalsByEmployee[k].assignments = 0

\* C13: a constraint failure is data. Every assignment without an employee
\* carries a reason and an issue with the same shiftId and reason stands in
\* the issues list; every assignment with an employee carries no reason;
\* every shift of the canonical list read so far has its entry, whatever
\* records were read, also ones without an id or with times no Date parses;
\* and the returned result has totals for every canonical employee.
C13_FailuresAreData ==
    /\ Len(assignments) = Len(shifts)
    /\ \A i \in 1..Len(assignments) :
           IF assignments[i].employeeId = NullId
           THEN /\ assignments[i].reason # NoReason
                /\ \A j \in 1..Len(assignments[i].reason) : assignments[i].reason[j] # ""
                /\ \E m \in 1..Len(issues) :
                       /\ issues[m].shiftId = assignments[i].shiftId
                       /\ issues[m].reason = assignments[i].reason
           ELSE assignments[i].reason = NoReason
    /\ pc = "done" => Len(totalsByEmployee) = Len(employeeMap)

\* A finished run over a record without an id and a record without times,
\* with an employee record without an id: one entry, unfilled for its
\* missing times.
C13_Witness ==
    /\ pc = "done"
    /\ employees[1] = IdlessEmployee
    /\ Len(shiftTemplate) = 2
    /\ \E j \in 1..2 : shiftTemplate[j] = ShiftRecord("noid", j)
    /\ Len(assignments) = 1
    /\ assignments[1].employeeId = NullId
    /\ assignments[1].reason = TimesReason
    /\ issues = <<[shiftId |-> assignments[1].shiftId, employeeId |-> NullId,
                   reason |-> TimesReason]>>

\* The type an availability record states, as normalizeAvailability reads it.
TypeOf(record) ==
    LET fields == IF "fields" \in DOMAIN record THEN record.fields ELSE record
        typeRaw == readField(fields, <<"type", "Type">>, UndefText)
    IN  trimLower(IF typeRaw = "" THEN "Available" ELSE typeRaw)

WithoutUnavailable(records) ==
    SelectSeq(records, LAMBDA record : TypeOf(record) # "unavailable")

\* What schedule() has returned.
Returned ==
    [assignments |-> assignments, issues |-> issues, totalsByEmployee |-> totalsByEmployee]

\* C14: availability records of type "unavailable" have no effect:
\* schedule() returns the same assignments, issues and totals for the
\* availability list with and without them.
C14_UnavailableIgnored ==
    (pc = "done" /\ WithoutUnavailable(availability) # availability) =>
        Returned = schedule(shiftTemplate, employees, WithoutUnavailable(availability),
                            existingAssignments)

\* The first employee is the only CNA and has day 1 from 07:00 to 19:00 and
\* an "unavailable" record over the whole week: the day shift of day 1 is
\* theirs, the day shift of day 2 is unfilled for want of a window.
C14_Witness ==
    /\ pc = "done"
    /\ \E n \in 1..Len(availability) : TypeOf(availability[n]) = "unavailable"
    /\ Len(assignments) = 2
    /\ shiftTemplate = <<ShiftRecord("day", 1), ShiftRecord("day", 2)>>
    /\ assignments[1].employeeId = "e1"
    /\ assignments[2].reason = WindowReason

Starts(c) == calls[c].at \in {"idle", "returned"} /\ calls'[c] # calls[c]

\* C16: once an attempt for week W has been answered with a 2xx response,
\* every call for W that starts later returns {ok: true, status: 204}
\* without calling fetch when it is not forced, and calls fetch when it is.
C16_DuplicateSkipped ==
    [][\A c \in Callers :
           (Starts(c) /\ calls'[c].week_id \in delivered) =>
               IF calls'[c].force
               THEN calls'[c].at = "fetch" /\ calls'[c].fetches = 1
               ELSE /\ calls'[c].at = "returned"
                    /\ calls'[c].result = [ok |-> TRUE, status |-> 204]
                    /\ calls'[c].fetches = 0]_vars

\* After a delivery of week-dup, one caller's unforced call for it has been
\* skipped and the other's forced call is at its fetch.
C16_Witness ==
    /\ "week-dup" \in delivered
    /\ calls["a"] = returned([Idle EXCEPT !.week_id = "week-dup"], TRUE, 204)
    /\ calls["b"].week_id = "week-dup" /\ calls["b"].force /\ calls["b"].at = "fetch"

\* The last of a call's answers.
Last(seq) == seq[Len(seq)]
Failed(answer) == answer = Thrown \/ answer >= 500

\* C17: a call retries an attempt that got a 5xx response or threw, one
\* attempt after another and at most three; it returns the first response
\* that is ok or below 500, and gives up only after the third failure. With
\* the answers 500, 500, 200 it returns {ok: true, status: 200} after
\* exactly three fetch calls and its week is in postedWeeks.
C17_Retries ==
    \A c \in Callers :
        LET call == calls[c]
            answers == call.answers
        IN  /\ Len(answers) <= attempts
            /\ call.fetches <= attempts
            /\ call.fetches = Len(answers) + (IF call.at \in {"fetch", "text"} THEN 1 ELSE 0)
            /\ \A n \in 1..Len(answers) - 1 : Failed(answers[n])
            /\ (answers # <<>> /\ Failed(Last(answers)) /\ Len(answers) < attempts)
                   => call.at \in {"delay", "fetch", "text"}
            /\ (call.at = "returned" /\ answers # <<>>) =>
                   IF Failed(Last(answers))
                   THEN /\ Len(answers) = attempts
                        /\ ~call.result.ok
                        /\ call.result.status = (IF Last(answers) = Thrown THEN 0 ELSE 500)
                   ELSE call.result = [ok |-> (Last(answers) \in 200..299),
                                       status |-> Last(answers)]
            /\ (call.at = "returned" /\ answers = <<500, 500, 200>>) =>
                   /\ call.result = [ok |-> TRUE, status |-> 200]
                   /\ call.fetches = 3
                   /\ call.week_id \in postedWeeks

\* The call of the test: 500, 500, then 200.
C17_Witness ==
    /\ calls["a"].at = "returned"
    /\ calls["a"].week_id = "week-500"
    /\ calls["a"].answers = <<500, 500, 200>>
    /\ calls["a"].fetches = 3
    /\ "week-500" \in postedWeeks

\* C18: validate() does not mutate or reorder its inputs: over a call the
\* assignments, shifts, employees and availability lists hold the same
\* records in the same order with the same field values.
C18_InputsUntouched ==
    [][pc = "validate" =>
           /\ assignments' = assignments
           /\ shiftTemplate' = shiftTemplate
           /\ employees' = employees
           /\ availability' = availability]_vars

\* A call over two different entries that has reported errors.
C18_Witness ==
    /\ pc = "validated"
    /\ Len(assignments) = 2
    /\ assignments[1] # assignments[2]
    /\ validationErrors # <<>>

\* The employee record says "active" in any case and with any padding, or
\* says nothing about status.
ActiveByRecord(record) ==
    LET status == readField(record, <<"status">>, UndefText) IN
    status = "" \/ status \in {"Active", "active", " ACTIVE"}

\* C19: no shift is paired, afresh or by a kept pairing, with an employee
\* whose record is not active or with an id that no employee record has.
C19_OnlyActiveKnown ==
    \A i \in 1..Len(assignments) :
        IsFilled(i) =>
            \E n \in 1..Len(employees) :
                /\ readField(employees[n], <<"id", "employee_id", "employeeId">>, UndefText)
                       = assignments[i].employeeId
                /\ ActiveByRecord(employees[n])

\* Two afternoon shifts of a finished run, paired beforehand with the
\* inactive second employee and with an id no employee has: both pairings
\* are released and neither shift goes to the employee it named.
C19_Witness ==
    /\ pc = "done"
    /\ Len(employees) = 2
    /\ ~ActiveByRecord(employees[2])
    /\ Len(assignments) = 2
    /\ existingGet(existing, shifts[1].id) = "e2"
    /\ existingGet(existing, shifts[2].id) = Ghost
    /\ IsFilled(1) /\ assignments[1].employeeId = "e1"
    /\ Len(issues) >= 2
    /\ issues[1].reason = ReleasedReason /\ issues[1].employeeId = "e2"

\* A window of employeeId starts no later than shift and ends no earlier.
Contained(employeeId, shift) ==
    \E n \in 1..Len(availabilityMap[employeeId]) :
        /\ availabilityMap[employeeId][n].start <= shift.start
        /\ availabilityMap[employeeId][n].end >= shift.end

\* Under a role test fits: every filled shift lies inside one window of its
\* employee, and a timed shift that has active employees of a fitting role,
\* none of them with such a window, is unfilled with the window reason.
CoveringWindowRule(fits(_, _)) ==
    LET sh == shifts IN
    /\ Len(assignments) = Len(sh)
    /\ \A i \in 1..Len(sh) :
           /\ IsFilled(i) => Contained(assignments[i].employeeId, sh[i])
           /\ (/\ HasTimes(sh[i])
               /\ \E k \in 1..Len(employeeMap) :
                      /\ employeeMap[k].status = "active"
                      /\ fits(employeeMap[k].role, sh[i].roleNeeded)
               /\ \A k \in 1..Len(employeeMap) :
                      (/\ employeeMap[k].status = "active"
                       /\ fits(employeeMap[k].role, sh[i].roleNeeded))
                          => ~Contained(employeeMap[k].id, sh[i]))
                  => /\ assignments[i].employeeId = NullId
                     /\ assignments[i].reason = WindowReason

\* C20: every filled assignment is backed by one availability window of
\* its employee that contains the whole shift; a window that only overlaps
\* the shift, or windows that only together span it, make nobody eligible;
\* and a shift none of whose role-compatible employees has a covering
\* window is unfilled with the reason that no employees are available
\* during the shift window.
C20_CoveringWindow == CoveringWindowRule(RoleFits)

\* The same with role compatibility as accepts() decides it.
CoveringWindowAsScheduled == CoveringWindowRule(accepts)

\* A reachable case of the rule as scheduled: the second employee's two
\* half-day windows only together span a shift whose role they fit, nobody
\* else has a window containing it, and the shift is unfilled with the
\* window reason.
UnionOfWindowsRejected ==
    /\ pc = "done"
    /\ Len(availabilityMap["e2"]) = 3
    /\ \E i \in 1..Len(shifts) :
           /\ shifts[i].start = availabilityMap["e2"][1].start
           /\ shifts[i].end = availabilityMap["e2"][2].end
           /\ \E k \in 1..Len(employeeMap) :
                  /\ employeeMap[k].id = "e2"
                  /\ employeeMap[k].status = "active"
                  /\ accepts(employeeMap[k].role, shifts[i].roleNeeded)
           /\ assignments[i].employeeId = NullId
           /\ assignments[i].reason = WindowReason

\* The active employees whose role fits the shift, under a role test fits.
RolePool(fits(_, _), shift) ==
    {k \in 1..Len(employeeMap) :
        employeeMap[k].status = "active" /\ fits(employeeMap[k].role, shift.roleNeeded)}

\* The reason of the first stage that leaves nobody for shift i.
StageReason(fits(_, _), sh, i) ==
    IF RolePool(fits, sh[i]) = {} THEN RoleReason(sh[i].roleNeeded)
    ELSE IF CoveredCandidates(fits, sh[i]) = {} THEN WindowReason
    ELSE IF CapCandidates(fits, sh, i) = {} THEN CapReason
    ELSE ConflictReason

StageReasons(shift) == {RoleReason(shift.roleNeeded), WindowReason, CapReason, ConflictReason}

\* Under a role test fits: an unfilled shift with valid times was left by
\* nobody surviving the four stages, carries the reason of the first empty
\* stage, and has exactly one issue with a stage reason, that one.
StageReasonRule(fits(_, _)) ==
    LET sh == shifts IN
    /\ Len(assignments) = Len(sh)
    /\ \A i \in 1..Len(sh) :
           (HasTimes(sh[i]) /\ ~IsFilled(i)) =>
               /\ Survivors(fits, sh, i) = {}
               /\ assignments[i].reason = StageReason(fits, sh, i)
               /\ \A n \in 1..Len(issues) :
                      (issues[n].shiftId = sh[i].id /\ issues[n].reason \in StageReasons(sh[i]))
                          => issues[n].reason = StageReason(fits, sh, i)
               /\ Cardinality({n \in 1..Len(issues) :
                      /\ issues[n].shiftId = sh[i].id
                      /\ issues[n].reason \in StageReasons(sh[i])}) = 1

\* C21: an unfilled shift with valid times carries the reason of the first
\* of the stages role pool, availability coverage, weekly cap, conflict
\* whose surviving set is empty, the stages being cumulative; the cap reason
\* presupposes a role-compatible employee with a covering window, the
\* conflict reason a covered employee within cap; each unfilled shift gets
\* exactly one such reason.
C21_FirstEmptyStage == StageReasonRule(RoleFits)

\* The same with role compatibility as accepts() decides it.
FirstEmptyStageAsScheduled == StageReasonRule(accepts)

\* Reachable cases of the rule as scheduled: a shift unfilled at the cap
\* stage and one unfilled at the conflict stage.
CapStageReached ==
    /\ pc = "done"
    /\ \E i \in 1..Len(shifts) :
           /\ assignments[i].employeeId = NullId
           /\ assignments[i].reason = CapReason
           /\ CoveredCandidates(accepts, shifts[i]) # {}

ConflictStageReached ==
    /\ pc = "done"
    /\ \E i \in 1..Len(shifts) :
           /\ assignments[i].employeeId = NullId
           /\ assignments[i].reason = ConflictReason
           /\ CapCandidates(accepts, shifts, i) # {}

\* The step reads a shift record that normalizes to a shift without times.
ReadsUntimedShift ==
    /\ pc = "loop"
    /\ Len(shifts') = Len(shifts) + 1
    /\ ~HasTimes(shifts'[Len(shifts')])

\* C22: a shift whose start or end failed to parse gets an unfilled
\* assignment with the missing-start-or-end reason and exactly one issue,
\* that reason's, before any other step: a supplied pairing for it is
\* neither kept nor reported as released, and the running hours and blocks
\* of every employee are left unchanged.
C22_UntimedShiftFirst ==
    [][ReadsUntimedShift =>
           LET shift == shifts'[Len(shifts')] IN
           /\ assignments' = Append(assignments,
                  [shiftId |-> shift.id, employeeId |-> NullId, reason |-> TimesReason])
           /\ issues' = Append(issues,
                  [shiftId |-> shift.id, employeeId |-> NullId, reason |-> TimesReason])
           /\ totals' = totals
           /\ blocks' = blocks]_vars

\* After a day shift went to the first employee, a second record without
\* usable times came with a pairing naming that employee, who is active,
\* of the required role and within cap.
C22_Witness ==
    /\ pc = "done"
    /\ Len(shifts) = 2
    /\ HasTimes(shifts[1]) /\ assignments[1].employeeId = "e1"
    /\ ~HasTimes(shifts[2])
    /\ existingGet(existing, shifts[2].id) = "e1"
    /\ shifts[2].roleNeeded = "CNA"
    /\ \E k \in 1..Len(employeeMap) :
           /\ employeeMap[k].id = "e1"
           /\ employeeMap[k].status = "active"
           /\ employeeMap[k].role = "CNA"
    /\ assignments[2].reason = TimesReason
    /\ totals["e1"] = shifts[1].hours
    /\ Len(blocks["e1"]) = 1

\* The length in hours (as a Number) of the time from instant a to instant b.
HoursFromTo(a, b) == ((b - a) * HourUnits) \div MS_IN_HOUR

\* C24: every normalized shift has hours >= 0 for every pair of parsable
\* start and end instants, also for an end more than 24 and more than 48
\* hours before the start; an end at or before the start is read as ending
\* the next day before the duration is computed; hours is 0 when either
\* endpoint is unparsable.
C24_HoursNeverNegative ==
    pc = "normalized" =>
        /\ Len(shifts) = 1
        /\ shifts[1].hours >= 0
        /\ (timeArgs.start = NoTime \/ timeArgs.end = NoTime) => shifts[1].hours = 0
        /\ (timeArgs.start # NoTime /\ timeArgs.end > timeArgs.start) =>
               shifts[1].hours = HoursFromTo(timeArgs.start, timeArgs.end)
        /\ (/\ timeArgs.start # NoTime /\ timeArgs.end # NoTime
            /\ timeArgs.end <= timeArgs.start
            /\ timeArgs.end + MS_IN_DAY > timeArgs.start) =>
               shifts[1].hours = HoursFromTo(timeArgs.start, timeArgs.end + MS_IN_DAY)

\* The same for ends less than two days before the start.
HoursNeverNegativeWithinTwoDays ==
    (timeArgs.end = NoTime \/ timeArgs.start = NoTime
        \/ timeArgs.end + 2 * MS_IN_DAY >= timeArgs.start)
        => C24_HoursNeverNegative

\* Reachable: an end thirty hours before the start gives eighteen hours.
ThirtyHoursBackIsEighteen ==
    /\ pc = "normalized"
    /\ timeArgs.start = Origin /\ timeArgs.end = At(-30)
    /\ shifts[1].hours = hoursNumber(18)

\* The rule of overlaps() on the call's arguments: the candidate's
\* normalized range shares an instant with the normalized range of a block
\* that has a start before its end, as half-open intervals.
IntersectsSomeBlock ==
    LET candidate == normalizeRange(timeArgs.start, timeArgs.end) IN
    /\ candidate.start # NoTime /\ candidate.end # NoTime
    /\ \E n \in DOMAIN timeArgs.blocks :
           LET range == normalizeRange(timeArgs.blocks[n].start, timeArgs.blocks[n].end) IN
           /\ range.start # NoTime /\ range.end # NoTime
           /\ range.end > range.start
           /\ range.start < candidate.end
           /\ candidate.start < range.end

\* C26: overlaps(blocks, start, end) is true exactly when the candidate's
\* normalized range intersects the normalized range of at least one block
\* as half-open intervals; ranges that only touch do not overlap; an empty
\* block set, an unparsable candidate and a block whose end is still at or
\* before its start after normalization give no overlap.
C26_HalfOpenOverlap ==
    pc = "overlaps" => (timeResult.overlaps <=> IntersectsSomeBlock)

\* The same for a candidate whose end is less than a day before its start.
HalfOpenOverlapWithinADay ==
    (timeArgs.start # NoTime /\ timeArgs.end # NoTime
        /\ timeArgs.end + MS_IN_DAY <= timeArgs.start)
        \/ C26_HalfOpenOverlap

\* Reachable: a candidate that starts where the only block ends, a
\* candidate after a block whose end is more than a day before its start,
\* and an overnight candidate crossing a block.
TouchingDoesNotOverlap ==
    /\ pc = "overlaps"
    /\ timeArgs.start = Origin /\ timeArgs.end = At(12)
    /\ timeArgs.blocks = <<Block(12, At(-5), At(0))>>
    /\ ~timeResult.overlaps

MalformedBlockNeverOverlaps ==
    /\ pc = "overlaps"
    /\ timeArgs.start = Origin /\ timeArgs.end = At(12)
    /\ timeArgs.blocks = <<Block(17, At(5), At(-40))>>
    /\ ~timeResult.overlaps

OvernightCandidateOverlaps ==
    /\ pc = "overlaps"
    /\ timeArgs.start = Origin /\ timeArgs.end = At(-6)
    /\ timeArgs.blocks = <<Block(16, At(1), At(-1))>>
    /\ timeResult.overlaps

\* The end of the interval whose length is the hours the shift is charged.
ChargedEnd(shift) == shift.start + (shift.hours * MS_IN_HOUR) \div HourUnits

\* Block n of the call has a range with a start before its end.
ProperBlock(n) ==
    LET range == normalizeRange(timeArgs.blocks[n].start, timeArgs.blocks[n].end) IN
    range.start # NoTime /\ range.end # NoTime /\ range.start < range.end

\* C25: the overnight rule is applied identically everywhere: for a shift
\* with parsable start and end, one and the same effective interval, the
\* one whose length is the hours charged, is used by the scheduler's
\* coverage test, by the overlap test with the shift as candidate and with
\* the shift as committed block, and by the validator's coverage and
\* overlap checks.
C25_OneEffectiveInterval ==
    (pc = "compared" /\ HasTimes(shifts[1])) =>
        LET shift == shifts[1]
            from == shift.start
            to == ChargedEnd(shift)
        IN  \A n \in DOMAIN timeArgs.blocks :
                ProperBlock(n) =>
                    LET range == normalizeRange(timeArgs.blocks[n].start,
                                                timeArgs.blocks[n].end)
                        intersects == range.start < to /\ from < range.end
                        contains == range.start <= from /\ range.end >= to
                    IN  /\ timeResult.asCandidate[n] <=> intersects
                        /\ timeResult.asBlock[n] <=> intersects
                        /\ timeResult.coverage[n] <=> contains
                        /\ timeResult.hasCoverage[n] <=> contains

\* The same for a shift record whose end is less than two days before its
\* start.
OneEffectiveIntervalWithinTwoDays ==
    (timeArgs.end # NoTime /\ timeArgs.start # NoTime
        /\ timeArgs.end + 2 * MS_IN_DAY <= timeArgs.start)
        \/ C25_OneEffectiveInterval

\* Scheduler and validator make the same coverage test on every shift.
SameCoverageTest ==
    pc = "compared" => timeResult.coverage = timeResult.hasCoverage

\* Reachable: an overnight shift compared with a block that starts where
\* it ends on the next morning.
OvernightShiftCompared ==
    /\ pc = "compared"
    /\ timeArgs.start = Origin /\ timeArgs.end = At(-6)
    /\ timeArgs.blocks = <<Block(13, At(18), At(20))>>
    /\ shifts[1].hours = hoursNumber(18)
    /\ timeResult.asCandidate = <<FALSE>>
    /\ timeResult.asBlock = <<FALSE>>

\* The step of the pass commits the shift it reads to employee id.
Commits(id) ==
    /\ Len(assignments') = Len(assignments) + 1
    /\ assignments'[Len(assignments')].employeeId = id

\* Employee id's hours and blocks change only by a commit to id, and then
\* by the hours and the block of the shift read.
LedgerStep(id) ==
    IF Commits(id)
    THEN LET shift == shifts'[Len(shifts')] IN
         /\ totals'[id] = totals[id] + shift.hours
         /\ blocks'[id] = Append(blocks[id],
                [start |-> shift.start, end |-> shift.end, shiftId |-> shift.id])
    ELSE totals'[id] = totals[id] /\ blocks'[id] = blocks[id]

\* Employee id's hours do not decrease and id's list of blocks does not
\* shrink.
OnlyGrows(id) ==
    /\ totals'[id] >= totals[id]
    /\ Len(blocks'[id]) >= Len(blocks[id])
    /\ SubSeq(blocks'[id], 1, Len(blocks[id])) = blocks[id]

LedgerStartsEmpty ==
    (pc = "loop" /\ shifts = <<>>) =>
        \A id \in EmployeeIds : totals[id] = 0 /\ blocks[id] = <<>>

\* C23: during the single pass the cumulative hours of every employee
\* never decrease and the list of occupied blocks never shrinks: both start
\* at zero and empty, change only when a shift is committed to that
\* employee, by exactly that shift's hours and one block, and are left
\* unchanged by an unfilled shift and by a released pairing.
C23_LedgerOnlyGrows ==
    /\ LedgerStartsEmpty
    /\ [][\A id \in EmployeeIds : LedgerStep(id) /\ OnlyGrows(id)]_vars

\* The part of it about what changes the hours and the blocks.
LedgerChangesByCommits ==
    /\ LedgerStartsEmpty
    /\ [][\A id \in EmployeeIds : LedgerStep(id)]_vars

\* Reachable: a released pairing, after which the shift went to the other
\* employee, with the hours and blocks of the released one as they were.
ReleasedLeavesLedger ==
    /\ pc = "done"
    /\ Len(shifts) = 2
    /\ existingGet(existing, shifts[2].id) = "e1"
    /\ Released(shifts, 2)
    /\ assignments[1].employeeId = "e1"
    /\ assignments[2].employeeId = "e2"
    /\ Len(blocks["e1"]) = 1

\* The ids a supplied entry names (0 and NullId for none).
EntryShiftId(entry) == firstTruthy(entry, "shiftId", "shift_id", 0)
EntryEmployeeId(entry) == firstTruthy(entry, "employeeId", "employee_id", NullId)

\* The entry names a shift and an employee, and both are canonical.
KnownPair(entry) ==
    /\ EntryShiftId(entry) # 0 /\ EntryEmployeeId(entry) # NullId
    /\ mapHas(shifts, EntryShiftId(entry))
    /\ mapHas(employeeMap, EntryEmployeeId(entry))

\* The entry names a shift and an employee, one of them not canonical.
Dangling(entry) ==
    /\ EntryShiftId(entry) # 0 /\ EntryEmployeeId(entry) # NullId
    /\ ~KnownPair(entry)

\* The one error a dangling entry is to draw: the shift is looked at first.
DanglingError(entry) ==
    validationError(IF mapHas(shifts, EntryShiftId(entry))
                    THEN "missing_employee" ELSE "missing_shift",
                    <<EntryShiftId(entry)>>, EntryEmployeeId(entry))

IsMissingError(error) == error.type \in {"missing_shift", "missing_employee"}

\* C27: an assignment that references a shift id or an employee id absent
\* from the canonical sets yields exactly one error (missing_shift, checked
\* first, else missing_employee) and nothing else: the other errors are
\* those of the list without such assignments, so it adds nothing to any
\* employee's hours and blocks; assignments lacking a shift id or an
\* employee id yield no error at all.
C27_MissingReferences ==
    pc = "validated" =>
        LET dangling == SelectSeq(assignments, Dangling)
            known == SelectSeq(assignments, KnownPair)
        IN  /\ SelectSeq(validationErrors, IsMissingError)
                   = [n \in 1..Len(dangling) |-> DanglingError(dangling[n])]
            /\ SelectSeq(validationErrors, LAMBDA error : ~IsMissingError(error))
                   = validateNormalized(known, shifts, employeeMap, availabilityMap)
            /\ \A n \in 1..Len(validationErrors) : validationErrors[n].employeeId # NullId

\* A list of an entry for the unknown shift 9 and an entry naming the
\* unknown employee for a known shift has drawn exactly these two errors.
C27_Witness ==
    /\ pc = "validated"
    /\ Len(assignments) = 2
    /\ EntryShiftId(assignments[1]) = 9
    /\ mapHas(employeeMap, "e1")
    /\ EntryEmployeeId(assignments[2]) = Ghost
    /\ validationErrors = <<validationError("missing_shift", <<9>>, "e1"),
                            validationError("missing_employee",
                                <<EntryShiftId(assignments[2])>>, Ghost)>>

RECURSIVE SuppliedHours(_, _)
\* Sum of the hours of the first n supplied entries that name employeeId
\* and a canonical shift.
SuppliedHours(employeeId, n) ==
    IF n = 0 THEN 0
    ELSE SuppliedHours(employeeId, n - 1)
         + (IF KnownPair(assignments[n]) /\ EntryEmployeeId(assignments[n]) = employeeId
            THEN mapGet(shifts, EntryShiftId(assignments[n])).hours ELSE 0)

WeeklyCapErrorsOf(employeeId) ==
    {n \in 1..Len(validationErrors) :
        validationErrors[n].type = "weekly_cap" /\ validationErrors[n].employeeId = employeeId}

\* C28: validate() reports exactly one weekly_cap error for an employee if
\* and only if the hours of all assignments that reference that employee
\* and a known shift, whatever other errors they drew, sum to strictly more
\* than the employee's weeklyCap; a sum equal to the cap gives no error.
C28_WeeklyCapError ==
    pc = "validated" =>
        /\ \A k \in 1..Len(employeeMap) :
               Cardinality(WeeklyCapErrorsOf(employeeMap[k].id))
                   = IF SuppliedHours(employeeMap[k].id, Len(assignments))
                            > employeeMap[k].weeklyCap
                     THEN 1 ELSE 0
        /\ \A n \in 1..Len(validationErrors) :
               validationErrors[n].type = "weekly_cap" =>
                   mapHas(employeeMap, validationErrors[n].employeeId)

\* The CMA employee with cap 12 holds the 12-hour day shift and the
\* afternoon shift inside it, both requiring a CNA: role_mismatch twice and
\* one weekly_cap error.
C28_Witness ==
    /\ pc = "validated"
    /\ Len(employeeMap) = 1
    /\ employeeMap[1].weeklyCap = hoursNumber(12)
    /\ Len(assignments) = 2
    /\ KnownPair(assignments[1]) /\ EntryShiftId(assignments[1]) = 1
    /\ KnownPair(assignments[2]) /\ EntryShiftId(assignments[2]) = 2
    /\ shifts[1].hours = hoursNumber(12) /\ shifts[2].hours > 0
    /\ HasError("role_mismatch", <<1>>, "e1") /\ HasError("role_mismatch", <<2>>, "e1")
    /\ Cardinality(WeeklyCapErrorsOf("e1")) = 1

\* Reachable: the same employee with only the 12-hour shift is at the cap
\* and draws no weekly_cap error.
AtCapNoError ==
    /\ pc = "validated"
    /\ Len(employeeMap) = 1
    /\ employeeMap[1].weeklyCap = hoursNumber(12)
    /\ SuppliedHours("e1", Len(assignments)) = hoursNumber(12)
    /\ WeeklyCapErrorsOf("e1") = {}

\* The pairs of supplied entries, by position, that name the same canonical
\* employee and canonical shifts whose intervals share an instant.
IntersectingPairs ==
    {pair \in (1..Len(assignments)) \X (1..Len(assignments)) :
        /\ pair[1] < pair[2]
        /\ KnownPair(assignments[pair[1]]) /\ KnownPair(assignments[pair[2]])
        /\ EntryEmployeeId(assignments[pair[1]]) = EntryEmployeeId(assignments[pair[2]])
        /\ LET a == mapGet(shifts, EntryShiftId(assignments[pair[1]]))
               b == mapGet(shifts, EntryShiftId(assignments[pair[2]]))
           IN  HasTimes(a) /\ HasTimes(b) /\ Intersect(a, b)}

\* The overlap errors of a result, each as employee and set of shift ids.
OverlapsReported(errors) ==
    {[employeeId |-> errors[n].employeeId,
      shiftIds |-> {errors[n].shiftId[m] : m \in DOMAIN errors[n].shiftId}] :
        n \in {m \in 1..Len(errors) : errors[m].type = "overlap"}}

\* C29: validate() reports one overlap error for every unordered pair of
\* distinct assignment entries of the same employee whose shift intervals
\* intersect and none for other pairs: each such pair once, identified by
\* both shift ids, whichever of the two assignments comes first in the
\* list.
C29_OverlapPairs ==
    pc = "validated" =>
        LET reported == {n \in 1..Len(validationErrors) :
                             validationErrors[n].type = "overlap"}
            backwards == [n \in 1..Len(assignments) |->
                             assignments[Len(assignments) + 1 - n]]
        IN  /\ Cardinality(reported) = Cardinality(IntersectingPairs)
            /\ \A pair \in IntersectingPairs :
                   HasError("overlap",
                            <<EntryShiftId(assignments[pair[1]]),
                              EntryShiftId(assignments[pair[2]])>>,
                            EntryEmployeeId(assignments[pair[1]]))
            /\ OverlapsReported(validationErrors)
                   = OverlapsReported(validateNormalized(backwards, shifts, employeeMap,
                                                         availabilityMap))

\* Reachable: the day shift of day 3 and the shift before it in the
\* template, both with the first employee.
SameMorningPair ==
    /\ pc = "validated"
    /\ Len(assignments) = 2
    /\ EntryEmployeeId(assignments[1]) = "e1" /\ EntryEmployeeId(assignments[2]) = "e1"
    /\ EntryShiftId(assignments[1]) = 3 /\ EntryShiftId(assignments[2]) = 2
    /\ Cardinality(OverlapsReported(validationErrors)) = 1

\* The window contains the interval from the shift's start to its end.
WindowCovers(window, shift) == window.start <= shift.start /\ window.end >= shift.end

\* Some window of the employee contains the shift's interval.
FullyCovered(employeeId, shift) ==
    /\ HasTimes(shift)
    /\ \E n \in DOMAIN availabilityMap[employeeId] :
           WindowCovers(availabilityMap[employeeId][n], shift)

\* The positions of the supplied entries with a canonical shift and a
\* canonical employee that satisfy test.
KnownEntries(test(_, _)) ==
    {n \in 1..Len(assignments) :
        /\ KnownPair(assignments[n])
        /\ test(mapGet(shifts, EntryShiftId(assignments[n])),
                mapGet(employeeMap, EntryEmployeeId(assignments[n])))}

IsInactive(shift, employee) == employee.status # "active"
IsUncovered(shift, employee) == ~FullyCovered(employee.id, shift)
IsCodeUncovered(shift, employee) == ~hasCoverage(availabilityMap[employee.id], shift)

\* The errors of one type are those of the entries that satisfy test, one
\* for each such entry and with its ids.
ErrorsFollow(type, test(_, _)) ==
    /\ Cardinality({n \in 1..Len(validationErrors) : validationErrors[n].type = type})
           = Cardinality(KnownEntries(test))
    /\ \A n \in 1..Len(assignments) :
           KnownPair(assignments[n]) =>
               (HasError(type, <<EntryShiftId(assignments[n])>>,
                         EntryEmployeeId(assignments[n]))
                    <=> n \in KnownEntries(test))

\* C30: for an assignment whose shift and employee are both known,
\* validate() reports inactive_employee exactly when the employee's status
\* is not active and availability exactly when no availability window of
\* the employee fully covers the shift's interval, which is always so when
\* the shift's times are unparsable; neither check stops the other or the
\* role check.
C30_StatusAndAvailability ==
    pc = "validated" =>
        /\ ErrorsFollow("inactive_employee", IsInactive)
        /\ ErrorsFollow("availability", IsUncovered)

\* The status rule alone.
InactiveReported == pc = "validated" => ErrorsFollow("inactive_employee", IsInactive)

\* The availability rule with the end the validator tests, a day after the
\* stored end where that is at or before the start.
AvailabilityAsValidated == pc = "validated" => ErrorsFollow("availability", IsCodeUncovered)

\* Reachable: one assignment draws the three errors, in the order of the
\* checks.
ThreeErrorsTogether ==
    /\ pc = "validated"
    /\ Len(assignments) = 1
    /\ Len(validationErrors) = 3
    /\ validationErrors[1].type = "inactive_employee"
    /\ validationErrors[2].type = "role_mismatch"
    /\ validationErrors[3].type = "availability"
    /\ mapGet(employeeMap, "e2").role = "CMA"

\* Reachable: a shift whose times no Date parses, all week available.
UntimedIsUncovered ==
    /\ pc = "validated"
    /\ Len(assignments) = 1
    /\ KnownPair(assignments[1])
    /\ ~HasTimes(mapGet(shifts, EntryShiftId(assignments[1])))
    /\ Len(availabilityMap[EntryEmployeeId(assignments[1])]) > 0
    /\ HasError("availability", <<EntryShiftId(assignments[1])>>,
                EntryEmployeeId(assignments[1]))

\* Every known entry without an availability error has a window of the
\* employee that contains the instant the shift starts at.
CoveredShiftsStartInAWindow ==
    pc = "validated" =>
        \A n \in 1..Len(assignments) :
            LET entry == assignments[n] IN
            (/\ KnownPair(entry)
             /\ ~HasError("availability", <<EntryShiftId(entry)>>, EntryEmployeeId(entry)))
                => \E m \in DOMAIN availabilityMap[EntryEmployeeId(entry)] :
                       LET window == availabilityMap[EntryEmployeeId(entry)][m]
                           shift == mapGet(shifts, EntryShiftId(entry))
                       IN  window.start <= shift.start /\ shift.start < window.end

\* ------------------------------------------------------------------------
\* Properties of the normalizers' field lookup.
\* ------------------------------------------------------------------------
\* The alias lists of each entity type, in the order they are tried.
ShiftAliases ==
    << <<"id", "shift_id", "Shift Id", "shiftId">>, <<"role_needed", "role", "Role">>,
       <<"date", "Date">>, <<"start_time", "start", "Start">>, <<"end_time", "end", "End">> >>
WindowAliases ==
    << <<"employee_id", "employee", "Employee", "employees", "Employee ID">>,
       <<"type", "Type">>,
       <<"date", "Date">>, <<"start_time", "start", "Start">>, <<"end_time", "end", "End">> >>
EmployeeAliases ==
    << <<"id", "employee_id", "employeeId">>, <<"role">>, <<"status">>,
       <<"weekly_cap", "weeklyCap", "Weekly Cap">>, <<"name", "Name">> >>

\* Some alias of keys is present in obj, and the value of the first one.
Present(obj, keys) == \E n \in DOMAIN keys : keys[n] \in DOMAIN obj
FirstOf(obj, keys) ==
    obj[keys[CHOOSE n \in DOMAIN keys :
                 /\ keys[n] \in DOMAIN obj
                 /\ \A m \in 1..(n - 1) : keys[m] \notin DOMAIN obj]]

\* The field as the lookup rule gives it: from the top level when an alias
\* is present there, else from the bag; under the first alias of the list,
\* and no field when neither place has one.
Looked(record, keys) ==
    IF Present(record, keys) THEN keys[1] :> FirstOf(record, keys)
    ELSE IF "fields" \in DOMAIN record /\ Present(record.fields, keys)
    THEN keys[1] :> FirstOf(record.fields, keys)
    ELSE NoFields

RECURSIVE LookedUp(_, _, _)
\* The flat record of the fields the rule finds for the alias lists from n on.
LookedUp(record, aliases, n) ==
    IF n > Len(aliases) THEN NoFields
    ELSE Looked(record, aliases[n]) @@ LookedUp(record, aliases, n + 1)

\* The record has a bag and gives, at the top level too, one of the fields
\* of the alias lists from position from on.
TopLevelBesideBag(record, aliases, from) ==
    /\ "fields" \in DOMAIN record
    /\ \E n \in from..Len(aliases) : Present(record, aliases[n])

\* C31: for every entity type a field present at the top level of an input
\* record and in its nested bag is read from the top level, and the bag is
\* consulted only when no alias is present at the top level: ids, the
\* shift's role, date, start and end, and the window's employee link, type,
\* date, start and end.
C31_TopLevelFirst ==
    /\ pc = "shifts" =>
           shifts = normalizeShiftRecords(<<LookedUp(shiftTemplate[1], ShiftAliases, 1)>>)
    /\ pc = "windows" =>
           availabilityMap
               = normalizeAvailability(<<LookedUp(availability[1], WindowAliases, 1)>>)
    /\ pc = "employees" =>
           employeeMap = normalizeEmployees(<<LookedUp(employees[1], EmployeeAliases, 1)>>)

\* The same for employee records, for shift records that have no bag or
\* nothing but the id outside it, and for availability records that have no
\* bag or nothing outside it.
TopLevelFirstWithoutBagBeside ==
    /\ (pc = "shifts" /\ ~TopLevelBesideBag(shiftTemplate[1], ShiftAliases, 2)) =>
           shifts = normalizeShiftRecords(<<LookedUp(shiftTemplate[1], ShiftAliases, 1)>>)
    /\ (pc = "windows" /\ ~TopLevelBesideBag(availability[1], WindowAliases, 1)) =>
           availabilityMap
               = normalizeAvailability(<<LookedUp(availability[1], WindowAliases, 1)>>)
    /\ pc = "employees" =>
           employeeMap = normalizeEmployees(<<LookedUp(employees[1], EmployeeAliases, 1)>>)

\* The id of a shift is read from the top level first, bag or not.
ShiftIdTopLevelFirst ==
    (pc = "shifts" /\ shifts # <<>>) =>
        <<"id" :> shifts[1].id>> = <<Looked(shiftTemplate[1], ShiftAliases[1])>>

\* Reachable: an employee record with the role at both places.
EmployeeRoleAtBothPlaces ==
    /\ pc = "employees" /\ employeeMap # <<>>
    /\ "fields" \in DOMAIN employees[1] /\ "role" \in DOMAIN employees[1]
    /\ "role" \in DOMAIN employees[1].fields
    /\ employeeMap[1].role = "CMA"

\* Reachable: a shift record with a bag whose fields are all in the bag.
ShiftReadFromBag ==
    /\ pc = "shifts" /\ shifts # <<>>
    /\ shifts[1].roleNeeded = "CNA" /\ shifts[1].start = 55 * MS_IN_HOUR

\* ------------------------------------------------------------------------
\* Properties of the pass across its shifts.
\* ------------------------------------------------------------------------
\* The fresh-assignment filters (lines 124-171) let employeeId through for
\* shift, on the hours and blocks held now.
PassesFilters(shift, needed, employeeId) ==
    /\ mapHas(employeeMap, employeeId)
    /\ LET employee == mapGet(employeeMap, employeeId)
           entry == [employee |-> employee,
                     coverage |-> coverageForShift(availabilityMap[employeeId],
                                                   shift.start, shift.end)]
       IN  /\ employee.status = "active"
           /\ accepts(employee.role, needed)
           /\ entry.coverage.available
           /\ withinCapFilter(run, entry, shift)
           /\ withoutConflictsFilter(run, entry, shift)

\* The kinds of shift the next record of the template may be.
NextKinds == {"day", "afternoon", "either", "morning", "night", "composite"}

\* C33: when the existing pairing of a shift with an employee is released,
\* the fresh assignment made for that shift in the same pass never picks
\* that employee: the shift goes to someone else or stays unfilled. The
\* keep test and the fresh-assignment filters are the same six conditions
\* on the same running state.
C33_ReleasedNotRepicked ==
    /\ \A i \in 1..Len(assignments), n \in 1..Len(issues) :
           (issues[n].reason = ReleasedReason /\ issues[n].shiftId = shifts[i].id)
               => assignments[i].employeeId # issues[n].employeeId
    /\ pc = "loop" =>
           \A kind \in NextKinds, employeeId \in EmployeeIds :
               LET shift == normalizeShift(ShiftRecord(kind, Len(shiftTemplate) + 1))
                   needed == norm(shift.roleNeeded)
               IN  canAssign(run, shift, needed, employeeId, employeeMap, availabilityMap)
                       <=> PassesFilters(shift, needed, employeeId)

\* Reachable: a released pairing whose shift went to the other employee,
\* and one whose shift stayed unfilled.
C33_Witness ==
    /\ Len(assignments) = 2 /\ Len(issues) >= 1
    /\ issues[1].reason = ReleasedReason /\ issues[1].shiftId = shifts[2].id
    /\ issues[1].employeeId = "e1"
    /\ assignments[2].employeeId = "e2"

ReleasedAndUnfilled ==
    /\ Len(assignments) = 2 /\ Len(issues) = 2
    /\ issues[1].reason = ReleasedReason /\ issues[1].shiftId = shifts[2].id
    /\ mapHas(employeeMap, issues[1].employeeId)
    /\ assignments[2].employeeId = NullId
    /\ assignments[2].reason = <<"All available employees have conflicting assignments.">>

\* The first n entries of a list.
FirstN(list, n) == SubSeq(list, 1, n)

\* C34: the outcome for the shift at position i depends only on the shifts
\* before it: schedule() on the first n shifts of the list, with the same
\* employees, availability and existing assignments, gives the first n
\* assignment entries of the run on the whole list and the issues recorded
\* up to there; only the totals may differ.
C34_PrefixIndependent ==
    pc = "done" =>
        \A n \in 0..Len(shifts) :
            LET short == scheduleNormalized(FirstN(shifts, n), employeeMap, availabilityMap,
                                            existing)
            IN  /\ short.assignments = FirstN(assignments, n)
                /\ Len(short.issues) <= Len(issues)
                /\ short.issues = FirstN(issues, Len(short.issues))
                /\ \A m \in (Len(short.issues) + 1)..Len(issues) :
                       \E i \in (n + 1)..Len(shifts) : issues[m].shiftId = shifts[i].id

\* Reachable: a run whose second shift changed the totals of the employee
\* who holds the first and has a pairing supplied for it.
C34_Witness ==
    /\ pc = "done"
    /\ Len(shifts) = 2 /\ Len(existing) = 1
    /\ assignments[1].employeeId = "e1" /\ assignments[2].employeeId = "e1"
    /\ scheduleNormalized(FirstN(shifts, 1), employeeMap, availabilityMap,
                          existing).totalsByEmployee # totalsByEmployee

\* ------------------------------------------------------------------------
\* Properties of postSchedule() across calls.
\* ------------------------------------------------------------------------
\* In this step caller c's call reads a 2xx response and returns it.
ReturnsSuccess(c) ==
    /\ calls[c].at = "text"
    /\ calls[c].status \in 200..299
    /\ calls'[c].at = "returned"
    /\ calls'[c].result = [ok |-> TRUE, status |-> calls[c].status]

\* C35: a week_id is in postedWeeks only if some call for it received an ok
\* response with status 200..299. A call that ends in a 4xx response, in
\* three 5xx responses, in thrown errors, in the duplicate skip or for lack
\* of a URL leaves postedWeeks as it was, so that a later unforced call for
\* the week is attempted again; no entry is ever removed.
C35_PostedOnlyAfterSuccess ==
    /\ postedWeeks = {}
    /\ [][/\ postedWeeks \subseteq postedWeeks'
          /\ \A week_id \in postedWeeks' \ postedWeeks :
                 \E c \in Callers : ReturnsSuccess(c) /\ calls[c].week_id = week_id
          /\ \A c \in Callers :
                 (calls'[c] # calls[c] /\ calls'[c].at = "returned" /\ ~calls'[c].result.ok)
                     => postedWeeks' = postedWeeks
          /\ \A c \in Callers :
                 (calls'[c] # calls[c] /\ calls'[c].at = "returned"
                  /\ calls'[c].result.status = 204)
                     => postedWeeks' = postedWeeks
          /\ \A c \in Callers :
                 (/\ Starts(c) /\ ~calls'[c].force /\ webhookUrl # ""
                  /\ calls'[c].week_id \notin postedWeeks)
                     => calls'[c].at = "fetch" /\ calls'[c].fetches = 1]_vars

\* Reachable: a call for a week gave up after three failures, the week is
\* not recorded, and the other caller's unforced call for it is at its fetch.
C35_Witness ==
    /\ calls["a"].at = "returned" /\ calls["a"].week_id = "week-500"
    /\ Len(calls["a"].answers) = attempts /\ ~calls["a"].result.ok
    /\ "week-500" \notin postedWeeks
    /\ calls["b"].week_id = "week-500" /\ ~calls["b"].force
    /\ calls["b"].at = "fetch" /\ calls["b"].answers = <<>>
    /\ "week-dup" \in postedWeeks

\* C36: of two unforced calls for the same week_id that run interleaved at
\* their awaits at most one fetches the webhook: the week is delivered at
\* most once, the other call returning the 204 duplicate skip.
C36_OneDeliveryPerWeek ==
    \A a, b \in Callers :
        (/\ a # b
         /\ calls[a].week_id = calls[b].week_id /\ calls[a].week_id # ""
         /\ ~calls[a].force /\ ~calls[b].force
         /\ calls[a].at = "returned" /\ calls[a].result = [ok |-> TRUE, status |-> 200])
            => (calls[b].at = "returned" => calls[b].result.status # 200)

\* The same for calls that do not overlap: once one unforced call for a week
\* has returned a 2xx, no call for it that starts later is delivered.
OneDeliveryWhenSequential ==
    [][\A c \in Callers :
           (/\ Starts(c) /\ ~calls'[c].force
            /\ \E other \in Callers \ {c} :
                   /\ calls[other].at = "returned"
                   /\ calls[other].week_id = calls'[c].week_id
                   /\ calls[other].result = [ok |-> TRUE, status |-> 200])
               => calls'[c].result = [ok |-> TRUE, status |-> 204]
                      /\ calls'[c].at = "returned"]_vars

\* C37: a response that is not ok and has a status below 500 ends the call
\* at once, whichever attempt received it: one fetch for it, the result
\* {ok: false, status: that status}, no backoff delay and no further attempt.
C37_ClientErrorEndsCall ==
    \A c \in Callers :
        LET call == calls[c] IN
        \A n \in 1..Len(call.answers) :
            (call.answers[n] \in 300..499) =>
                /\ n = Len(call.answers)
                /\ call.at = "returned"
                /\ call.result = [ok |-> FALSE, status |-> call.answers[n]]
                /\ call.fetches = n

\* Reachable: a 404 on the third attempt, after a 5xx and a thrown error.
C37_Witness ==
    /\ calls["a"].at = "returned"
    /\ calls["a"].answers = <<500, Thrown, 404>>
    /\ calls["a"].fetches = 3
    /\ calls["a"].result = [ok |-> FALSE, status |-> 404]

\* Reachable: a 404 on the first attempt.
ClientErrorAtOnce ==
    /\ calls["b"].at = "returned"
    /\ calls["b"].answers = <<404>>
    /\ calls["b"].fetches = 1

\* A call in flight: at one of its awaits.
InFlight(c) == calls[c].at \in {"fetch", "text", "delay"}

\* The bounds of a call's retry loop: at most three fetches; a backoff
\* delay only after a failed attempt that is not the last; after three
\* failed attempts the result {ok: false, status: 500} when the last got a
\* 5xx response and {ok: false, status: 0} when it threw.
RetryLoopBounded ==
    \A c \in Callers :
        LET call == calls[c]
            answers == call.answers
        IN  /\ call.fetches <= attempts /\ Len(answers) <= attempts
            /\ call.at = "delay" =>
                   /\ Len(answers) \in 1..(attempts - 1)
                   /\ Failed(Last(answers))
                   /\ call.fetches = Len(answers)
            /\ (Len(answers) = attempts /\ Failed(Last(answers))) =>
                   /\ call.at = "returned"
                   /\ call.fetches = attempts
                   /\ call.result = [ok |-> FALSE,
                                     status |-> IF Last(answers) = Thrown THEN 0 ELSE 500]

RequestBody ==
    [week_id |-> handler.week_id, employees |-> employees,
     shift_template |-> shiftTemplate, availability |-> availability]

\* The request fails the schema the handler declares (index.js:20-37,
\* schemas.js:5-9): a week_id that is no text of at least one character, an
\* employee id that is none, or an employee record without any id.
SchemaError ==
    \/ ~stringMin1(handler.week_id)
    \/ \E n \in DOMAIN employees :
           LET v == employees[n] IN
           \/ "id" \in DOMAIN v /\ ~stringMin1(v.id)
           \/ \A key \in {"id", "employee_id", "employeeId"} :
                  key \notin DOMAIN v \/ ~stringMin1(v[key])

\* Delivery is enabled and a webhook URL is configured.
DeliveryConfigured == zapierEnabled /\ webhookUrl # ""

\* The response is the 200 response that schedule() and validate() give
\* for the request, whatever became of the delivery.
IsGenerated(response) ==
    LET result == schedule(shiftTemplate, employees, availability, <<>>)
        errors == validate(result.assignments, shiftTemplate, employees, availability)
    IN  /\ response.status = 200
        /\ response.assignments = result.assignments
        /\ response.totalsByEmployee = result.totalsByEmployee
        /\ response.issues = result.issues \o [n \in DOMAIN errors |-> asIssue(errors[n])]
        /\ response.zapier.ok => handler.week_id \in delivered
        /\ ~DeliveryConfigured =>
               /\ response.zapier = [ok |-> FALSE, status |-> 0]
               /\ calls[HandlerCall] = Idle
               /\ delivered = {}

\* C39: in POST /generate-schedule a valid request is answered 200 with
\* the scheduler's assignments, totals and issues followed by the validator
\* findings, whatever postSchedule() does; zapier.ok is true only for a
\* delivered week; without delivery enabled and a webhook URL postSchedule()
\* is not called and zapier is {ok: false, status: 0}; each request gets
\* exactly one response, and a request that fails the schema gets 400.
C39_OneResponsePerRequest ==
    /\ Len(handler.responses) <= 1
    /\ handler.at = "responded" =>
           /\ Len(handler.responses) = 1
           /\ IF SchemaError THEN handler.responses[1].status = 400
              ELSE IsGenerated(handler.responses[1])

\* A request whose employee id is a number has been answered.
NumberedIdAnswered ==
    /\ handler.at = "responded"
    /\ \E n \in DOMAIN employees : "id" \in DOMAIN employees[n] /\ employees[n].id = NumericId

\* The handler as it is written: 400 when the parse throws a ZodError, 500
\* when it throws anything else, and otherwise the 200 response.
OneResponseAsHandled ==
    /\ Len(handler.responses) <= 1
    /\ handler.at = "responded" =>
           /\ Len(handler.responses) = 1
           /\ LET outcome == parseRequest(RequestBody) IN
              CASE outcome = "ZodError" -> handler.responses[1].status = 400
                [] outcome = "TypeError" -> handler.responses[1].status = 500
                [] OTHER -> IsGenerated(handler.responses[1])

\* Every request but those whose employee id is no text is answered as the
\* schema says.
OneResponseForTextIds ==
    handler.at = "responded" /\ ~NumberedIdAnswered =>
        /\ Len(handler.responses) = 1
        /\ IF SchemaError THEN handler.responses[1].status = 400
           ELSE IsGenerated(handler.responses[1])

\* A valid request has been answered after a delivery that failed, with
\* scheduler issues and validator findings in its body.
FailedDeliveryAnswered ==
    /\ handler.at = "responded"
    /\ ~SchemaError
    /\ DeliveryConfigured
    /\ ~handler.responses[1].zapier.ok
    /\ issues # <<>> /\ validationErrors # <<>>

\* A valid request has been answered after its week was delivered.
DeliveredAnswered ==
    /\ handler.at = "responded"
    /\ ~SchemaError
    /\ handler.responses[1].zapier = [ok |-> TRUE, status |-> 200]

\* A request without week_id has been answered 400.
MissingWeekAnswered ==
    /\ handler.at = "responded"
    /\ handler.week_id = UndefText
    /\ handler.responses[1].status = 400

\* ------------------------------------------------------------------------
\* Properties of planSchedule()
\* ------------------------------------------------------------------------
\* The positions of the issues of type ai_planner_error in a list.
PlannerErrors(issueList) ==
    { n \in DOMAIN issueList :
          "type" \in DOMAIN issueList[n] /\ issueList[n].type = "ai_planner_error" }

\* C32: planSchedule() returns in one of the modes local, ai and fallback
\* with the assignments and totals schedule() computes for its arguments;
\* without the AI flag the mode is local and the issues are schedule()'s;
\* the mode is fallback exactly when the AI planner threw (no key, first
\* request, no tool call, follow-up request), and then the issues are
\* schedule()'s followed by one issue of type ai_planner_error, the only
\* one of that type; in mode ai the issues are schedule()'s.
C32_PlannerFallsBack ==
    /\ planner.at \in {"idle", "first", "followup", "returned"}
    /\ planner.at = "returned" =>
           LET local == schedule(shiftTemplate, employees, availability,
                                 existingAssignments)
               result == planner.result
           IN  /\ result.mode \in {"local", "ai", "fallback"}
               /\ result.assignments = local.assignments
               /\ result.totalsByEmployee = local.totalsByEmployee
               /\ ~planner.USE_AI_FLAG => result.mode = "local"
               /\ result.mode = "local" => ~planner.USE_AI_FLAG
               /\ (result.mode = "fallback") = (planner.thrown # "")
               /\ IF result.mode = "fallback"
                  THEN /\ Len(result.issues) = Len(local.issues) + 1
                       /\ SubSeq(result.issues, 1, Len(local.issues)) = local.issues
                       /\ PlannerErrors(result.issues) = {Len(result.issues)}
                  ELSE result.issues = local.issues

\* The follow-up request was rejected after schedule() had left a shift
\* unfilled, and planSchedule() has returned.
C32_Witness ==
    /\ planner.at = "returned"
    /\ planner.thrown = "followup"
    /\ planner.result.mode = "fallback"
    /\ Len(planner.result.issues) > 1

\* Each step of the AI planner that can throw has thrown in some call, and
\* some call has returned in each of the other two modes.
ThrownAt(step) == planner.at = "returned" /\ planner.thrown = step
ReturnedIn(mode) == planner.at = "returned" /\ planner.result.mode = mode
NoKeyFallsBack == ThrownAt("client")
FirstRequestFallsBack == ThrownAt("first")
NoToolCallFallsBack == ThrownAt("tool")
ReturnedLocal == ReturnedIn("local")
ReturnedAi == ReturnedIn("ai") /\ planner.result.assignments # <<>>

====
